---- MODULE Spec2Model ----
(***************************************************************************)
(* A model of pymp4: the Box codec of src/pymp4/parser.py and the cli dump *)
(* loop of src/pymp4/cli.py.                                               *)
(*                                                                         *)
(* parser.py declares every box as a value of the `construct` combinator   *)
(* library.  The model keeps that shape: a schema is a value (a record     *)
(* tagged with the combinator's name, k), written with the same names and  *)
(* the same field order as the source, and two interpreters, Parse and     *)
(* Build, give the combinators the meaning construct 2.10 gives them.      *)
(* A byte string is a sequence of numbers in 0..255; a stream position is  *)
(* the number returned by tell().  Python's None is the empty sequence     *)
(* for an absent optional (If) field, whose present value v is <<v>>.      *)
(***************************************************************************)
EXTENDS Integers, Sequences, FiniteSets, TLC

RECURSIVE Parse(_, _, _, _)
RECURSIVE ParseFields(_, _, _, _, _)
RECURSIVE ParseArray(_, _, _, _, _)
RECURSIVE ParseGreedy(_, _, _, _, _)
RECURSIVE Build(_, _, _)
RECURSIVE BuildFields(_, _, _, _, _)
RECURSIVE BuildArray(_, _, _)
RECURSIVE FlagBuildNone(_)
RECURSIVE FromBytes(_)
RECURSIVE ToBytes(_, _)
RECURSIVE BitSizeof(_, _)
RECURSIVE Get(_, _)
RECURSIVE first(_, _)
RECURSIVE find(_, _, _, _)
RECURSIVE find_loop(_, _, _, _, _, _, _, _, _)
RECURSIVE find_extended(_, _)

(***************************************************************************)
(* Byte strings and integers (construct's FormatField, BytesInteger and    *)
(* the bytes2bits / bits2bytes transforms of Bitwise).                     *)
(***************************************************************************)

\* int.from_bytes(b, "big") for a sequence of digits in base 256 (or base 2
\* when applied to a bit string through FromBits).
FromBytes(b) ==
  IF b = <<>> THEN 0 ELSE FromBytes(SubSeq(b, 1, Len(b) - 1)) * 256 + b[Len(b)]

\* Two's complement reading of the same digits (Int16sb, Int32sb).
FromBytesSigned(b) ==
  IF b[1] >= 128 THEN FromBytes(<<b[1] - 256>> \o Tail(b)) ELSE FromBytes(b)

\* v.to_bytes(w, "big"); the floor division and the non-negative modulus of
\* TLA+ give the two's complement digits of a negative v.  The top half of a
\* 64-bit field is the sign extension of a value that fits 32 bits.
ToBytes(v, w) ==
  IF w = 0 THEN <<>>
  ELSE IF w > 4 THEN <<(IF v < 0 THEN 255 ELSE 0)>> \o ToBytes(v, w - 1)
  ELSE ToBytes(v \div 256, w - 1) \o <<v % 256>>

RECURSIVE FromBits(_)
\* bits2integer: the value of a big-endian bit string.
FromBits(b) ==
  IF b = <<>> THEN 0 ELSE FromBits(SubSeq(b, 1, Len(b) - 1)) * 2 + b[Len(b)]

RECURSIVE ToBits(_, _)
\* integer2bits(v, w): the w low bits of v, most significant first.
ToBits(v, w) ==
  IF w = 0 THEN <<>> ELSE ToBits(v \div 2, w - 1) \o <<v % 2>>

RECURSIVE BytesToBits(_)
\* bytes2bits: every byte becomes eight 0/1 units, most significant first.
BytesToBits(b) ==
  IF b = <<>> THEN <<>> ELSE ToBits(b[1], 8) \o BytesToBits(Tail(b))

RECURSIVE BitsToBytes(_)
\* bits2bytes: eight 0/1 units become one byte.
BitsToBytes(b) ==
  IF b = <<>> THEN <<>>
  ELSE <<FromBits(SubSeq(b, 1, 8))>> \o BitsToBytes(SubSeq(b, 9, Len(b)))

RECURSIVE Zeros(_)
\* n zero units: what Padding writes.
Zeros(n) == IF n = 0 THEN <<>> ELSE <<0>> \o Zeros(n - 1)

(***************************************************************************)
(* The combinators of construct that parser.py uses, as schema values.     *)
(***************************************************************************)

Int8ub == [k |-> "Int", w |-> 1, signed |-> FALSE]
Int16ub == [k |-> "Int", w |-> 2, signed |-> FALSE]
Int16sb == [k |-> "Int", w |-> 2, signed |-> TRUE]
Int24ub == [k |-> "Int", w |-> 3, signed |-> FALSE]
Int32ub == [k |-> "Int", w |-> 4, signed |-> FALSE]
Int32sb == [k |-> "Int", w |-> 4, signed |-> TRUE]
Int64ub == [k |-> "Int", w |-> 8, signed |-> FALSE]
Bytes(n) == [k |-> "Bytes", n |-> n]
BitsInteger(n) == [k |-> "BitsInteger", n |-> n]
Flag == [k |-> "Flag"]
GreedyBytes == [k |-> "GreedyBytes"]
Pass == [k |-> "Pass"]
Padding(n) == [k |-> "Padding", n |-> n]
Const(v, sub) == [k |-> "Const", v |-> v, sub |-> sub]
ConstBytes(v) == Const(v, Bytes(Len(v)))
Default(sub, v) == [k |-> "Default", sub |-> sub, v |-> v]
Rebuild(sub, fn) == [k |-> "Rebuild", sub |-> sub, fn |-> fn]
Enum(sub, names) == [k |-> "Enum", sub |-> sub, names |-> names]
If(cond, sub) == [k |-> "If", cond |-> cond, sub |-> sub]
Switch(sel, cases, default) ==
  [k |-> "Switch", sel |-> sel, cases |-> cases, default |-> default]
Struct(fields) == [k |-> "Struct", fields |-> fields]
BitStruct(fields) == [k |-> "BitStruct", fields |-> fields]
Array(count, sub) == [k |-> "Array", count |-> count, sub |-> sub]
PrefixedArray(countfield, sub) ==
  [k |-> "PrefixedArray", countfield |-> countfield, sub |-> sub]
Prefixed(lengthfield, sub, includelength) ==
  [k |-> "Prefixed", lengthfield |-> lengthfield, sub |-> sub,
   includelength |-> includelength]
GreedyRange(sub) == [k |-> "GreedyRange", sub |-> sub]
Peek(sub) == [k |-> "Peek", sub |-> sub]
LazyBound(name) == [k |-> "LazyBound", name |-> name]
\* What an IfThenElse holds when the source passes the number 0 where a
\* construct is expected: using it raises (an int has no _parsereport).
NotAConstruct == [k |-> "NotAConstruct"]

\* name / subcon, and an unnamed subcon.
F(name, codec) == [name |-> name, codec |-> codec]
U(codec) == [name |-> "", codec |-> codec]

\* The `this` expressions of the source: a path into the context, and the
\* comparisons and negations the source applies to one.
This(path) == [e |-> "this", path |-> path]
Eq(path, v) == [e |-> "eq", path |-> path, v |-> v]
Ne(path, v) == [e |-> "ne", path |-> path, v |-> v]
Ge(path, v) == [e |-> "ge", path |-> path, v |-> v]

Lit(v) == [e |-> "lit", v |-> v]
IfThenElse(cond, thensub, elsesub) ==
  [k |-> "IfThenElse", cond |-> cond, thensub |-> thensub, elsesub |-> elsesub]
UUIDBytes(sub) == [k |-> "UUIDBytes", sub |-> sub]
ISO6392TLanguageCode(sub) == [k |-> "ISO6392TLanguageCode", sub |-> sub]
TellPlusSizeOf(sub) == [k |-> "TellPlusSizeOf", sub |-> sub]
\* A schema of parser.py whose fields this model does not spell out (strings,
\* Select, NullTerminated); no input of the model carries its tag.
Unmodelled == [k |-> "Unmodelled"]

(***************************************************************************)
(* The 4-byte type tags (ASCII) and the PIFF extended types (a UUID is the *)
(* sequence of its 32 hexadecimal digits, as uuid.UUID prints it).         *)
(***************************************************************************)

Tag(name) ==
  CASE name = "ftyp" -> <<102, 116, 121, 112>>
    [] name = "styp" -> <<115, 116, 121, 112>>
    [] name = "free" -> <<102, 114, 101, 101>>
    [] name = "skip" -> <<115, 107, 105, 112>>
    [] name = "mdat" -> <<109, 100, 97, 116>>
    [] name = "moov" -> <<109, 111, 111, 118>>
    [] name = "moof" -> <<109, 111, 111, 102>>
    [] name = "traf" -> <<116, 114, 97, 102>>
    [] name = "mvex" -> <<109, 118, 101, 120>>
    [] name = "trak" -> <<116, 114, 97, 107>>
    [] name = "mdia" -> <<109, 100, 105, 97>>
    [] name = "minf" -> <<109, 105, 110, 102>>
    [] name = "dinf" -> <<100, 105, 110, 102>>
    [] name = "stbl" -> <<115, 116, 98, 108>>
    [] name = "sinf" -> <<115, 105, 110, 102>>
    [] name = "schi" -> <<115, 99, 104, 105>>
    [] name = "mvhd" -> <<109, 118, 104, 100>>
    [] name = "tkhd" -> <<116, 107, 104, 100>>
    [] name = "mdhd" -> <<109, 100, 104, 100>>
    [] name = "hdlr" -> <<104, 100, 108, 114>>
    [] name = "vmhd" -> <<118, 109, 104, 100>>
    [] name = "smhd" -> <<115, 109, 104, 100>>
    [] name = "dref" -> <<100, 114, 101, 102>>
    [] name = "stsd" -> <<115, 116, 115, 100>>
    [] name = "stsz" -> <<115, 116, 115, 122>>
    [] name = "stts" -> <<115, 116, 116, 115>>
    [] name = "stss" -> <<115, 116, 115, 115>>
    [] name = "stsc" -> <<115, 116, 115, 99>>
    [] name = "stco" -> <<115, 116, 99, 111>>
    [] name = "co64" -> <<99, 111, 54, 52>>
    [] name = "mfhd" -> <<109, 102, 104, 100>>
    [] name = "tfdt" -> <<116, 102, 100, 116>>
    [] name = "trun" -> <<116, 114, 117, 110>>
    [] name = "tfhd" -> <<116, 102, 104, 100>>
    [] name = "mehd" -> <<109, 101, 104, 100>>
    [] name = "trex" -> <<116, 114, 101, 120>>
    [] name = "sidx" -> <<115, 105, 100, 120>>
    [] name = "saiz" -> <<115, 97, 105, 122>>
    [] name = "saio" -> <<115, 97, 105, 111>>
    [] name = "btrt" -> <<98, 116, 114, 116>>
    [] name = "dac3" -> <<100, 97, 99, 51>>
    [] name = "tenc" -> <<116, 101, 110, 99>>
    [] name = "pssh" -> <<112, 115, 115, 104>>
    [] name = "senc" -> <<115, 101, 110, 99>>
    [] name = "frma" -> <<102, 114, 109, 97>>
    [] name = "schm" -> <<115, 99, 104, 109>>
    [] name = "sbgp" -> <<115, 98, 103, 112>>
    [] name = "sgpd" -> <<115, 103, 112, 100>>
    [] name = "uuid" -> <<117, 117, 105, 100>>
    [] name = "abst" -> <<97, 98, 115, 116>>
    [] name = "asrt" -> <<97, 115, 114, 116>>
    [] name = "afrt" -> <<97, 102, 114, 116>>
    [] name = "mp4a" -> <<109, 112, 52, 97>>
    [] name = "enca" -> <<101, 110, 99, 97>>
    [] name = "ec-3" -> <<101, 99, 45, 51>>
    [] name = "avc1" -> <<97, 118, 99, 49>>
    [] name = "hvc1" -> <<104, 118, 99, 49>>
    [] name = "encv" -> <<101, 110, 99, 118>>
    [] name = "xxxx" -> <<120, 120, 120, 120>>
    [] name = "cenc" -> <<99, 101, 110, 99>>

\* UUID("A2394F52-5A9B-4F14-A244-6C427C648DF4")
UUID_SampleEncryption ==
  <<10, 2, 3, 9, 4, 15, 5, 2,  5, 10, 9, 11,  4, 15, 1, 4,  10, 2, 4, 4,
    6, 12, 4, 2, 7, 12, 6, 4, 8, 13, 15, 4>>
\* UUID("D08A4F18-10F3-4A82-B6C8-32D8ABA183D3")
UUID_ProtectionSystemHeader ==
  <<13, 0, 8, 10, 4, 15, 1, 8,  1, 0, 15, 3,  4, 10, 8, 2,  11, 6, 12, 8,
    3, 2, 13, 8, 10, 11, 10, 1, 8, 3, 13, 3>>
\* UUID("8974DBCE-7BE7-4C51-84F9-7148F9882554")
UUID_TrackEncryption ==
  <<8, 9, 7, 4, 13, 11, 12, 14,  7, 11, 14, 7,  4, 12, 5, 1,  8, 4, 15, 9,
    7, 1, 4, 8, 15, 9, 8, 8, 2, 5, 5, 4>>

RECURSIVE UUIDDecode(_)
\* UUID(bytes=obj): the 16 bytes become the 32 hexadecimal digits of the UUID.
UUIDDecode(b) ==
  IF b = <<>> THEN <<>>
  ELSE <<b[1] \div 16, b[1] % 16>> \o UUIDDecode(Tail(b))

RECURSIVE UUIDEncode(_)
\* obj.bytes: the digits, two by two, become the 16 bytes.
UUIDEncode(u) ==
  IF u = <<>> THEN <<>>
  ELSE <<u[1] * 16 + u[2]>> \o UUIDEncode(SubSeq(u, 3, Len(u)))

(***************************************************************************)
(* The schema catalog, in the order of parser.py.                          *)
(***************************************************************************)

\* VERSIONS with 16-bit integers for version 0.
VERSIONS_Narrow == <<<<0, Int16ub>>, <<1, Int64ub>>>>

\* Switch(this.version, VERSIONS) and Switch(this.version, VERSIONS, 0) both
\* fall back to Pass: Switch keeps "default or Pass", and 0 is false.
VERSIONS == <<<<0, Int32ub>>, <<1, Int64ub>>>>
UNITY_MATRIX == <<65536, 0, 0, 0, 65536, 0, 0, 0, 1073741824>>

FileTypeBox == Struct(<<
  F("type", ConstBytes(Tag("ftyp"))),
  F("major_brand", Bytes(4)),
  F("minor_version", Int32ub),
  F("compatible_brands", GreedyRange(Bytes(4)))>>)

SegmentTypeBox == Struct(<<
  F("type", ConstBytes(Tag("styp"))),
  F("major_brand", Bytes(4)),
  F("minor_version", Int32ub),
  F("compatible_brands", GreedyRange(Bytes(4)))>>)

\* RawBox whose data is a fixed two bytes instead of all the rest.
RawBox_TwoBytes == Struct(<<
  F("type", Bytes(4)),
  F("data", Default(Bytes(2), <<>>))>>)

\* The schema of every tag that Box does not know.
RawBox == Struct(<<
  F("type", Bytes(4)),
  F("data", Default(GreedyBytes, <<>>))>>)

FreeBox == Struct(<<
  F("type", ConstBytes(Tag("free"))), F("data", GreedyBytes)>>)

SkipBox == Struct(<<
  F("type", ConstBytes(Tag("skip"))), F("data", GreedyBytes)>>)

\* The default of next_track_ID, 0xFFFFFFFF, is written 0 - 1: the four
\* bytes built from it are FF FF FF FF either way.
MovieHeaderBox == Struct(<<
  F("type", ConstBytes(Tag("mvhd"))),
  F("version", Default(Int8ub, 0)),
  F("flags", Default(Int24ub, 0)),
  F("creation_time", Switch(This(<<"version">>), VERSIONS, Pass)),
  F("modification_time", Switch(This(<<"version">>), VERSIONS, Pass)),
  F("timescale", Default(Int32ub, 10000000)),
  F("duration", Switch(This(<<"version">>), VERSIONS, Pass)),
  F("rate", Default(Int32sb, 65536)),
  F("volume", Default(Int16sb, 256)),
  U(Const(0, Int16ub)),
  U(Const(0, Int32ub)),
  U(Const(0, Int32ub)),
  F("matrix", Default(Array(Lit(9), Int32sb), UNITY_MATRIX)),
  F("pre_defined", Default(Array(Lit(6), Int32ub), <<0, 0, 0, 0, 0, 0>>)),
  F("next_track_ID", Default(Int32ub, 0 - 1))>>)

TrackHeaderBox == Struct(<<
  F("type", ConstBytes(Tag("tkhd"))),
  F("version", Default(Int8ub, 0)),
  F("flags", Default(Int24ub, 1)),
  F("creation_time", Switch(This(<<"version">>), VERSIONS, Pass)),
  F("modification_time", Switch(This(<<"version">>), VERSIONS, Pass)),
  F("track_ID", Default(Int32ub, 1)),
  U(Padding(4)),
  F("duration", Switch(This(<<"version">>), VERSIONS, Pass)),
  U(Padding(8)),
  F("layer", Default(Int16sb, 0)),
  F("alternate_group", Default(Int16sb, 0)),
  F("volume", Default(Int16sb, 0)),
  U(Padding(2)),
  F("matrix", Default(Array(Lit(9), Int32sb), UNITY_MATRIX)),
  F("width", Default(Int32ub, 0)),
  F("height", Default(Int32ub, 0))>>)

\* A language is the sequence of the codes of its three letters.
MediaHeaderBox == Struct(<<
  F("type", ConstBytes(Tag("mdhd"))),
  F("version", Default(Int8ub, 0)),
  F("flags", Const(0, Int24ub)),
  F("creation_time", Switch(This(<<"version">>), VERSIONS, Pass)),
  F("modification_time", Switch(This(<<"version">>), VERSIONS, Pass)),
  F("timescale", Int32ub),
  F("duration", Switch(This(<<"version">>), VERSIONS, Pass)),
  F("language", BitStruct(<<
    U(Padding(1)),
    F("language", ISO6392TLanguageCode(Array(Lit(3), BitsInteger(5))))>>)),
  U(Padding(2))>>)

VideoMediaHeaderBox == Struct(<<
  F("type", ConstBytes(Tag("vmhd"))),
  F("version", Int8ub),
  F("flags", Default(Int24ub, 1)),
  F("graphics_mode", Default(Int16ub, 0)),
  F("opcolor", Struct(<<
    F("red", Default(Int16ub, 0)),
    F("green", Default(Int16ub, 0)),
    F("blue", Default(Int16ub, 0))>>))>>)

MP4ASampleEntryBox == Struct(<<
  F("version", Default(Int16ub, 0)),
  F("revision", Const(0, Int16ub)),
  F("vendor", Const(0, Int32ub)),
  F("channels", Default(Int16ub, 2)),
  F("bits_per_sample", Default(Int16ub, 16)),
  F("compression_id", Default(Int16sb, 0)),
  F("packet_size", Default(Int16ub, 0)),
  F("sampling_rate", Int16ub),
  U(Padding(2))>>)

AC3SpecificBox == Struct(<<
  F("type", ConstBytes(Tag("dac3"))),
  F("flags", BitStruct(<<
    F("fscod", BitsInteger(2)),
    F("bsid", BitsInteger(5)),
    F("bsmod", BitsInteger(3)),
    F("acmod", BitsInteger(3)),
    F("lfeon", BitsInteger(1)),
    F("bit_rate_code", BitsInteger(5)),
    F("reserved", BitsInteger(5))>>))>>)

SampleEntryBox == Prefixed(Int32ub, Struct(<<
  F("type", Bytes(4)),
  U(Padding(6)),
  F("data_reference_index", Default(Int16ub, 1)),
  F("sample_entry_box", Switch(This(<<"type">>), <<
      <<Tag("ec-3"), MP4ASampleEntryBox>>,
      <<Tag("mp4a"), MP4ASampleEntryBox>>,
      <<Tag("enca"), MP4ASampleEntryBox>>,
      <<Tag("hvc1"), Unmodelled>>,
      <<Tag("avc1"), Unmodelled>>,
      <<Tag("encv"), Unmodelled>>>>,
    Struct(<<F("data", GreedyBytes)>>))),
  F("children", LazyBound("GreedyRange(Box)"))>>), TRUE)

BitRateBox == Struct(<<
  F("type", ConstBytes(Tag("btrt"))),
  F("bufferSizeDB", Int32ub),
  F("maxBitrate", Int32ub),
  F("avgBirate", Int32ub)>>)

SampleDescriptionBox == Struct(<<
  F("type", ConstBytes(Tag("stsd"))),
  F("version", Default(Int8ub, 0)),
  F("flags", Const(0, Int24ub)),
  F("children", PrefixedArray(Int32ub, SampleEntryBox))>>)

SampleSizeBox == Struct(<<
  F("type", ConstBytes(Tag("stsz"))),
  F("version", Int8ub),
  F("flags", Const(0, Int24ub)),
  F("sample_size", Int32ub),
  F("sample_count", Int32ub),
  F("entry_sizes", If(Eq(<<"sample_size">>, 0),
                      Array(This(<<"sample_count">>), Int32ub)))>>)

TimeToSampleBox == Struct(<<
  F("type", ConstBytes(Tag("stts"))),
  F("version", Const(0, Int8ub)),
  F("flags", Const(0, Int24ub)),
  F("entries", Default(PrefixedArray(Int32ub, Struct(<<
      F("sample_count", Int32ub),
      F("sample_delta", Int32ub)>>)), <<>>))>>)

SyncSampleBox == Struct(<<
  F("type", ConstBytes(Tag("stss"))),
  F("version", Const(0, Int8ub)),
  F("flags", Const(0, Int24ub)),
  F("entries", Default(PrefixedArray(Int32ub, Struct(<<
      F("sample_number", Int32ub)>>)), <<>>))>>)

SampleToChunkBox == Struct(<<
  F("type", ConstBytes(Tag("stsc"))),
  F("version", Const(0, Int8ub)),
  F("flags", Const(0, Int24ub)),
  F("entries", Default(PrefixedArray(Int32ub, Struct(<<
      F("first_chunk", Int32ub),
      F("samples_per_chunk", Int32ub),
      F("sample_description_index", Int32ub)>>)), <<>>))>>)

ChunkOffsetBox == Struct(<<
  F("type", ConstBytes(Tag("stco"))),
  F("version", Const(0, Int8ub)),
  F("flags", Const(0, Int24ub)),
  F("entries", Default(PrefixedArray(Int32ub, Struct(<<
      F("chunk_offset", Int32ub)>>)), <<>>))>>)

ChunkLargeOffsetBox == Struct(<<
  F("type", ConstBytes(Tag("co64"))),
  F("version", Const(0, Int8ub)),
  F("flags", Const(0, Int24ub)),
  F("entries", PrefixedArray(Int32ub, Struct(<<
      F("chunk_offset", Int64ub)>>)))>>)

MovieFragmentHeaderBox == Struct(<<
  F("type", ConstBytes(Tag("mfhd"))),
  F("version", Const(0, Int8ub)),
  F("flags", Const(0, Int24ub)),
  F("sequence_number", Int32ub)>>)

TrackFragmentBaseMediaDecodeTimeBox == Struct(<<
  F("type", ConstBytes(Tag("tfdt"))),
  F("version", Int8ub),
  F("flags", Const(0, Int24ub)),
  F("baseMediaDecodeTime", Switch(This(<<"version">>), VERSIONS, Pass))>>)

TrackSampleFlags == BitStruct(<<
  U(Padding(4)),
  F("is_leading", Default(Enum(BitsInteger(2),
      <<"UNKNOWN", "LEADINGDEP", "NOTLEADING", "LEADINGNODEP">>), 0)),
  F("sample_depends_on", Default(Enum(BitsInteger(2),
      <<"UNKNOWN", "DEPENDS", "NOTDEPENDS", "RESERVED">>), 0)),
  F("sample_is_depended_on", Default(Enum(BitsInteger(2),
      <<"UNKNOWN", "NOTDISPOSABLE", "DISPOSABLE", "RESERVED">>), 0)),
  F("sample_has_redundancy", Default(Enum(BitsInteger(2),
      <<"UNKNOWN", "REDUNDANT", "NOTREDUNDANT", "RESERVED">>), 0)),
  F("sample_padding_value", Default(BitsInteger(3), 0)),
  F("sample_is_non_sync_sample", Default(Flag, FALSE)),
  F("sample_degradation_priority", Default(BitsInteger(16), 0))>>)

TrackRunBox == Struct(<<
  F("type", ConstBytes(Tag("trun"))),
  F("version", Int8ub),
  F("flags", BitStruct(<<
    U(Padding(12)),
    F("sample_composition_time_offsets_present", Flag),
    F("sample_flags_present", Flag),
    F("sample_size_present", Flag),
    F("sample_duration_present", Flag),
    U(Padding(5)),
    F("first_sample_flags_present", Flag),
    U(Padding(1)),
    F("data_offset_present", Flag)>>)),
  F("sample_count", Int32ub),
  F("data_offset", If(This(<<"flags", "data_offset_present">>), Int32sb)),
  F("first_sample_flags",
    If(This(<<"flags", "first_sample_flags_present">>), Int32ub)),
  F("sample_info", Array(This(<<"sample_count">>), Struct(<<
    F("sample_duration",
      If(This(<<"_", "flags", "sample_duration_present">>), Int32ub)),
    F("sample_size",
      If(This(<<"_", "flags", "sample_size_present">>), Int32ub)),
    F("sample_flags",
      If(This(<<"_", "flags", "sample_flags_present">>), TrackSampleFlags)),
    F("sample_composition_time_offsets",
      If(This(<<"_", "flags", "sample_composition_time_offsets_present">>),
         Switch(This(<<"_", "version">>),
                <<<<0, Int32ub>>, <<1, Int32sb>>>>, Pass)))>>)))>>)

\* TrackFragmentHeaderBox with its 24 flag bits in the opposite order.
TrackFragmentHeaderBox_Reversed == Struct(<<
  F("type", ConstBytes(Tag("tfhd"))),
  F("version", Int8ub),
  F("flags", BitStruct(<<
    F("base_data_offset_present", Flag),
    F("sample_description_index_present", Flag),
    U(Padding(1)),
    F("default_sample_duration_present", Flag),
    F("default_sample_size_present", Flag),
    F("default_sample_flags_present", Flag),
    U(Padding(10)),
    F("duration_is_empty", Flag),
    F("default_base_is_moof", Flag),
    U(Padding(6))>>)),
  F("track_ID", Int32ub),
  F("base_data_offset",
    If(This(<<"flags", "base_data_offset_present">>), Int64ub)),
  F("sample_description_index",
    If(This(<<"flags", "sample_description_index_present">>), Int32ub)),
  F("default_sample_duration",
    If(This(<<"flags", "default_sample_duration_present">>), Int32ub)),
  F("default_sample_size",
    If(This(<<"flags", "default_sample_size_present">>), Int32ub)),
  F("default_sample_flags",
    If(This(<<"flags", "default_sample_flags_present">>), TrackSampleFlags))>>)

\* TrackFragmentHeaderBox with the gates of default_sample_duration and
\* default_sample_size exchanged.
TrackFragmentHeaderBox_Swapped == Struct(<<
  F("type", ConstBytes(Tag("tfhd"))),
  F("version", Int8ub),
  F("flags", BitStruct(<<
    U(Padding(6)),
    F("default_base_is_moof", Flag),
    F("duration_is_empty", Flag),
    U(Padding(10)),
    F("default_sample_flags_present", Flag),
    F("default_sample_size_present", Flag),
    F("default_sample_duration_present", Flag),
    U(Padding(1)),
    F("sample_description_index_present", Flag),
    F("base_data_offset_present", Flag)>>)),
  F("track_ID", Int32ub),
  F("base_data_offset",
    If(This(<<"flags", "base_data_offset_present">>), Int64ub)),
  F("sample_description_index",
    If(This(<<"flags", "sample_description_index_present">>), Int32ub)),
  F("default_sample_duration",
    If(This(<<"flags", "default_sample_size_present">>), Int32ub)),
  F("default_sample_size",
    If(This(<<"flags", "default_sample_duration_present">>), Int32ub)),
  F("default_sample_flags",
    If(This(<<"flags", "default_sample_flags_present">>), TrackSampleFlags))>>)

TrackFragmentHeaderBox == Struct(<<
  F("type", ConstBytes(Tag("tfhd"))),
  F("version", Int8ub),
  F("flags", BitStruct(<<
    U(Padding(6)),
    F("default_base_is_moof", Flag),
    F("duration_is_empty", Flag),
    U(Padding(10)),
    F("default_sample_flags_present", Flag),
    F("default_sample_size_present", Flag),
    F("default_sample_duration_present", Flag),
    U(Padding(1)),
    F("sample_description_index_present", Flag),
    F("base_data_offset_present", Flag)>>)),
  F("track_ID", Int32ub),
  F("base_data_offset",
    If(This(<<"flags", "base_data_offset_present">>), Int64ub)),
  F("sample_description_index",
    If(This(<<"flags", "sample_description_index_present">>), Int32ub)),
  F("default_sample_duration",
    If(This(<<"flags", "default_sample_duration_present">>), Int32ub)),
  F("default_sample_size",
    If(This(<<"flags", "default_sample_size_present">>), Int32ub)),
  F("default_sample_flags",
    If(This(<<"flags", "default_sample_flags_present">>), TrackSampleFlags))>>)

MovieExtendsHeaderBox == Struct(<<
  F("type", ConstBytes(Tag("mehd"))),
  F("version", Default(Int8ub, 0)),
  F("flags", Const(0, Int24ub)),
  F("fragment_duration", Switch(This(<<"version">>), VERSIONS, Pass))>>)

TrackExtendsBox == Struct(<<
  F("type", ConstBytes(Tag("trex"))),
  F("version", Const(0, Int8ub)),
  F("flags", Const(0, Int24ub)),
  F("track_ID", Int32ub),
  F("default_sample_description_index", Default(Int32ub, 1)),
  F("default_sample_duration", Default(Int32ub, 0)),
  F("default_sample_size", Default(Int32ub, 0)),
  F("default_sample_flags", Default(TrackSampleFlags, <<>>))>>)

SegmentIndexBox == Struct(<<
  F("type", ConstBytes(Tag("sidx"))),
  F("version", Int8ub),
  F("flags", Const(0, Int24ub)),
  F("reference_ID", Int32ub),
  F("timescale", Int32ub),
  F("earliest_presentation_time", Switch(This(<<"version">>), VERSIONS, Pass)),
  F("first_offset", Switch(This(<<"version">>), VERSIONS, Pass)),
  U(Padding(2)),
  F("reference_count", Int16ub),
  F("references", Array(This(<<"reference_count">>), BitStruct(<<
    F("reference_type", Enum(BitsInteger(1), <<"MEDIA", "INDEX">>)),
    F("referenced_size", BitsInteger(31)),
    F("segment_duration", BitsInteger(32)),
    F("starts_with_SAP", Flag),
    F("SAP_type", BitsInteger(3)),
    F("SAP_delta_time", BitsInteger(28))>>)))>>)

SampleAuxiliaryInformationSizesBox == Struct(<<
  F("type", ConstBytes(Tag("saiz"))),
  F("version", Const(0, Int8ub)),
  F("flags", BitStruct(<<U(Padding(23)), F("has_aux_info_type", Flag)>>)),
  F("aux_info_type", If(This(<<"flags", "has_aux_info_type">>), Bytes(4))),
  F("aux_info_type_parameter",
    If(This(<<"flags", "has_aux_info_type">>), Int32ub)),
  F("default_sample_info_size", Int8ub),
  F("sample_count", Int32ub),
  F("sample_info_sizes", If(Eq(<<"default_sample_info_size">>, 0),
                            Array(This(<<"sample_count">>), Int8ub)))>>)

\* SampleAuxiliaryInformationOffsetsBox with the width of an offset selected
\* by the count of the array, a field of another context than that of saio.
SampleAuxiliaryInformationOffsetsBox_ByCount == Struct(<<
  F("type", ConstBytes(Tag("saio"))),
  F("version", Int8ub),
  F("flags", BitStruct(<<U(Padding(23)), F("has_aux_info_type", Flag)>>)),
  F("aux_info_type", If(This(<<"flags", "has_aux_info_type">>), Bytes(4))),
  F("aux_info_type_parameter",
    If(This(<<"flags", "has_aux_info_type">>), Int32ub)),
  F("offsets", PrefixedArray(Int32ub,
                 Switch(This(<<"count">>), VERSIONS, Pass)))>>)

SampleAuxiliaryInformationOffsetsBox == Struct(<<
  F("type", ConstBytes(Tag("saio"))),
  F("version", Int8ub),
  F("flags", BitStruct(<<U(Padding(23)), F("has_aux_info_type", Flag)>>)),
  F("aux_info_type", If(This(<<"flags", "has_aux_info_type">>), Bytes(4))),
  F("aux_info_type_parameter",
    If(This(<<"flags", "has_aux_info_type">>), Int32ub)),
  F("offsets", PrefixedArray(Int32ub,
                 Switch(This(<<"_", "version">>), VERSIONS, Pass)))>>)

MovieDataBox == Struct(<<
  F("type", ConstBytes(Tag("mdat"))), F("data", GreedyBytes)>>)

SoundMediaHeaderBox == Struct(<<
  F("type", ConstBytes(Tag("smhd"))),
  F("version", Const(0, Int8ub)),
  F("flags", Const(0, Int24ub)),
  F("balance", Default(Int16sb, 0)),
  F("reserved", Const(0, Int16ub))>>)

ProtectionSystemHeaderBox == Struct(<<
  F("type", If(Ne(<<"_", "type">>, Tag("uuid")), ConstBytes(Tag("pssh")))),
  F("version", Rebuild(Int8ub, "pssh_version")),
  F("flags", Const(0, Int24ub)),
  F("system_ID", UUIDBytes(Bytes(16))),
  F("key_IDs", If(Eq(<<"version">>, 1),
                  PrefixedArray(Int32ub, UUIDBytes(Bytes(16))))),
  F("init_data", Prefixed(Int32ub, GreedyBytes, FALSE))>>)

TrackEncryptionBox == Struct(<<
  F("type", If(Ne(<<"_", "type">>, Tag("uuid")), ConstBytes(Tag("tenc")))),
  F("version", Const(0, Int8ub)),
  F("flags", Const(0, Int24ub)),
  F("is_encrypted", Int24ub),
  F("iv_size", Int8ub),
  F("key_ID", UUIDBytes(Bytes(16)))>>)

SampleEncryptionBox == Struct(<<
  F("type", If(Ne(<<"_", "type">>, Tag("uuid")), ConstBytes(Tag("senc")))),
  F("version", Const(0, Int8ub)),
  F("flags", BitStruct(<<
    U(Padding(22)), F("has_subsample_encryption_info", Flag), U(Padding(1))>>)),
  F("sample_encryption_info", PrefixedArray(Int32ub, Struct(<<
    F("iv", Bytes(8)),
    F("subsample_encryption_info",
      If(This(<<"_", "_", "flags", "has_subsample_encryption_info">>),
         PrefixedArray(Int16ub, Struct(<<
           F("clear_bytes", Int16ub),
           F("cipher_bytes", Int32ub)>>))))>>)))>>)

SampleToGroupBox == Struct(<<
  F("type", ConstBytes(Tag("sbgp"))),
  F("version", Int8ub),
  F("flags", Const(0, Int24ub)),
  F("grouping_type", Bytes(4)),
  F("grouping_type_parameter", If(Eq(<<"version">>, 1), Int32ub)),
  F("entry_count", Int32ub),
  F("entries", Array(This(<<"entry_count">>), Struct(<<
    F("sample_count", Int32ub),
    F("group_description_index", Int32ub)>>)))>>)

SampleGroupDescriptionBox == Struct(<<
  F("type", ConstBytes(Tag("sgpd"))),
  F("version", Int8ub),
  F("flags", Int24ub),
  F("grouping_type", Bytes(4)),
  F("default_length", IfThenElse(Eq(<<"version">>, 1), Int32ub, NotAConstruct)),
  F("default_group_description_index", If(Ge(<<"version">>, 2), Int32ub)),
  F("entry_count", Int32ub),
  F("entries", Array(This(<<"entry_count">>), Struct(<<
    F("is_encrypted", Int24ub),
    F("iv_size", Int8ub),
    F("key_ID", UUIDBytes(Bytes(16)))>>)))>>)

OriginalFormatBox == Struct(<<
  F("type", ConstBytes(Tag("frma"))),
  F("original_format", Default(Bytes(4), Tag("avc1")))>>)

SchemeTypeBox == Struct(<<
  F("type", ConstBytes(Tag("schm"))),
  F("schema_uri", Default(Bytes(4), <<>>)),
  F("scheme_type", Default(Bytes(4), Tag("cenc"))),
  F("scheme_version", Int32ub)>>)

\* UUIDBox with the schemas of two of its extended types exchanged.
UUIDBox_Swapped == Struct(<<
  F("type", ConstBytes(Tag("uuid"))),
  F("extended_type", UUIDBytes(Bytes(16))),
  F("data", Switch(This(<<"extended_type">>), <<
      <<UUID_SampleEncryption, SampleEncryptionBox>>,
      <<UUID_ProtectionSystemHeader, TrackEncryptionBox>>,
      <<UUID_TrackEncryption, ProtectionSystemHeaderBox>>>>,
    GreedyBytes))>>)

UUIDBox == Struct(<<
  F("type", ConstBytes(Tag("uuid"))),
  F("extended_type", UUIDBytes(Bytes(16))),
  F("data", Switch(This(<<"extended_type">>), <<
      <<UUID_SampleEncryption, SampleEncryptionBox>>,
      <<UUID_ProtectionSystemHeader, ProtectionSystemHeaderBox>>,
      <<UUID_TrackEncryption, TrackEncryptionBox>>>>,
    GreedyBytes))>>)

ContainerBoxLazy == LazyBound("ContainerBox")

Box == Prefixed(Int32ub, Struct(<<
  F("type", Peek(Bytes(4))),
  F("box_body", Switch(This(<<"type">>), <<
      <<Tag("ftyp"), FileTypeBox>>,
      <<Tag("styp"), SegmentTypeBox>>,
      <<Tag("mvhd"), MovieHeaderBox>>,
      <<Tag("moov"), ContainerBoxLazy>>,
      <<Tag("moof"), ContainerBoxLazy>>,
      <<Tag("mfhd"), MovieFragmentHeaderBox>>,
      <<Tag("tfdt"), TrackFragmentBaseMediaDecodeTimeBox>>,
      <<Tag("trun"), TrackRunBox>>,
      <<Tag("tfhd"), TrackFragmentHeaderBox>>,
      <<Tag("traf"), ContainerBoxLazy>>,
      <<Tag("mvex"), ContainerBoxLazy>>,
      <<Tag("mehd"), MovieExtendsHeaderBox>>,
      <<Tag("trex"), TrackExtendsBox>>,
      <<Tag("trak"), ContainerBoxLazy>>,
      <<Tag("mdia"), ContainerBoxLazy>>,
      <<Tag("tkhd"), TrackHeaderBox>>,
      <<Tag("mdat"), MovieDataBox>>,
      <<Tag("free"), FreeBox>>,
      <<Tag("skip"), SkipBox>>,
      <<Tag("mdhd"), MediaHeaderBox>>,
      <<Tag("hdlr"), Unmodelled>>,
      <<Tag("minf"), ContainerBoxLazy>>,
      <<Tag("vmhd"), VideoMediaHeaderBox>>,
      <<Tag("dinf"), ContainerBoxLazy>>,
      <<Tag("dref"), Unmodelled>>,
      <<Tag("stbl"), ContainerBoxLazy>>,
      <<Tag("stsd"), SampleDescriptionBox>>,
      <<Tag("stsz"), SampleSizeBox>>,
      <<Tag("stts"), TimeToSampleBox>>,
      <<Tag("stss"), SyncSampleBox>>,
      <<Tag("stsc"), SampleToChunkBox>>,
      <<Tag("stco"), ChunkOffsetBox>>,
      <<Tag("co64"), ChunkLargeOffsetBox>>,
      <<Tag("smhd"), SoundMediaHeaderBox>>,
      <<Tag("sidx"), SegmentIndexBox>>,
      <<Tag("saiz"), SampleAuxiliaryInformationSizesBox>>,
      <<Tag("saio"), SampleAuxiliaryInformationOffsetsBox>>,
      <<Tag("btrt"), BitRateBox>>,
      <<Tag("dac3"), AC3SpecificBox>>,
      <<Tag("tenc"), TrackEncryptionBox>>,
      <<Tag("pssh"), ProtectionSystemHeaderBox>>,
      <<Tag("senc"), SampleEncryptionBox>>,
      <<Tag("sinf"), ContainerBoxLazy>>,
      <<Tag("frma"), OriginalFormatBox>>,
      <<Tag("schm"), SchemeTypeBox>>,
      <<Tag("schi"), ContainerBoxLazy>>,
      <<Tag("sbgp"), SampleToGroupBox>>,
      <<Tag("sgpd"), SampleGroupDescriptionBox>>,
      <<Tag("uuid"), UUIDBox>>,
      <<Tag("abst"), Unmodelled>>,
      <<Tag("asrt"), Unmodelled>>,
      <<Tag("afrt"), Unmodelled>>>>,
    RawBox)),
  F("length", TellPlusSizeOf(Int32ub))>>), TRUE)

ContainerBox == Struct(<<
  F("type", Bytes(4)), F("children", GreedyRange(Box))>>)

MP4 == GreedyRange(Box)

\* The thunks of the LazyBound schemas, resolved when first used.
Resolve(name) ==
  CASE name = "ContainerBox" -> ContainerBox
    [] name = "GreedyRange(Box)" -> GreedyRange(Box)

(***************************************************************************)
(* Parsing: Parse(c, s, p, ctx) is c._parsereport on the stream whose      *)
(* bytes are s, at position p, in the context ctx.  The result is the      *)
(* parsed value and the position after it, or a failure (an exception).    *)
(***************************************************************************)

Fail == [ok |-> FALSE, val |-> <<>>, n |-> 0]
Ok(v, n) == [ok |-> TRUE, val |-> v, n |-> n]
None == <<>>
\* The context of a top-level parse or build: no field, no parent.
TopCtx == [x \in {} |-> None]

\* stream_read: exactly `length` units from position p, or an error when the
\* length is negative or the stream is shorter.
stream_read(s, p, length) ==
  IF length < 0 \/ p + length > Len(s) THEN Fail
  ELSE Ok(SubSeq(s, p + 1, p + length), p + length)

\* Container item assignment: ctx[name] = v.
Put(ctx, name, v) ==
  [x \in DOMAIN ctx \cup {name} |-> IF x = name THEN v ELSE ctx[x]]

\* The Container a Struct returns: its context without the parent link.
Obj(ctx) == [x \in DOMAIN ctx \ {"_"} |-> ctx[x]]

\* this.a.b on a context.
Get(ctx, path) ==
  IF path = <<>> THEN ctx ELSE Get(ctx[Head(path)], Tail(path))

\* The value of a `this` expression (a lambda of the context).
Eval(e, ctx) ==
  CASE e.e = "lit" -> e.v
    [] e.e = "this" -> Get(ctx, e.path)
    [] e.e = "eq" -> Get(ctx, e.path) = e.v
    [] e.e = "ne" -> Get(ctx, e.path) # e.v
    [] e.e = "ge" -> Get(ctx, e.path) >= e.v

\* dict.get(key, default) on the cases of a Switch.
SwitchCase(c, key) ==
  IF \E i \in 1..Len(c.cases) : c.cases[i][1] = key
  THEN c.cases[CHOOSE i \in 1..Len(c.cases) : c.cases[i][1] = key][2]
  ELSE c.default

\* sizeof of a BitStruct's fields, in bits.
BitSizeof(fields, i) ==
  IF i > Len(fields) THEN 0
  ELSE LET c == fields[i].codec
           inner == IF c.k \in {"Default", "Enum"} THEN c.sub ELSE c
           leaf == IF inner.k = "Enum" THEN inner.sub ELSE inner
       IN (IF leaf.k = "Flag" THEN 1
           ELSE IF leaf.k = "ISO6392TLanguageCode"
             THEN leaf.sub.count.v * leaf.sub.sub.n
           ELSE leaf.n) + BitSizeof(fields, i + 1)

\* Struct._parse: the subcons in order, each seeing the fields before it.
ParseFields(fields, i, s, p, ctx) ==
  IF i > Len(fields) THEN Ok(ctx, p)
  ELSE LET r == Parse(fields[i].codec, s, p, ctx)
       IN IF ~r.ok THEN Fail
          ELSE ParseFields(fields, i + 1, s, r.n,
                 IF fields[i].name = "" THEN ctx
                 ELSE Put(ctx, fields[i].name, r.val))

\* Array._parse: count elements, one after the other.
ParseArray(sub, count, s, p, ctx) ==
  IF count = 0 THEN Ok(<<>>, p)
  ELSE LET r == Parse(sub, s, p, ctx)
           rest == ParseArray(sub, count - 1, s, r.n, ctx)
       IN IF ~r.ok THEN Fail
          ELSE IF ~rest.ok THEN Fail
          ELSE Ok(<<r.val>> \o rest.val, rest.n)

\* ParseGreedy putting each element before the ones parsed so far.
ParseGreedy_Prepend(sub, s, p, ctx, acc) ==
  LET r == Parse(sub, s, p, ctx)
  IN IF ~r.ok THEN Ok(acc, p)
     ELSE ParseGreedy(sub, s, r.n, ctx, <<r.val>> \o acc)

\* ParseGreedy letting the failure of an element through unless the stream
\* is at its end.
ParseGreedy_Strict(sub, s, p, ctx, acc) ==
  LET r == Parse(sub, s, p, ctx)
  IN IF ~r.ok THEN (IF p < Len(s) THEN Fail ELSE Ok(acc, p))
     ELSE ParseGreedy(sub, s, r.n, ctx, Append(acc, r.val))

\* GreedyRange._parse: elements until one fails; the failure is caught, the
\* stream is rewound to where that element began, and the list so far returned.
ParseGreedy(sub, s, p, ctx, acc) ==
  LET r == Parse(sub, s, p, ctx)
  IN IF ~r.ok THEN Ok(acc, p)
     ELSE ParseGreedy(sub, s, r.n, ctx, Append(acc, r.val))

\* ParsePrefixed stepping over a box whose prefix is below the 8 bytes of a
\* header, to decode what follows those 8 bytes.
ParsePrefixed_Skipping(c, s, p, ctx) ==
  LET l == Parse(c.lengthfield, s, p, ctx)
      length == IF c.includelength THEN l.val - c.lengthfield.w ELSE l.val
      data == stream_read(s, l.n, length)
      r == Parse(c.sub, data.val, 0, ctx)
  IN IF ~l.ok THEN Fail
     ELSE IF l.val < 8 THEN Parse(c, s, p + 8, ctx)
     ELSE IF ~data.ok THEN Fail
     ELSE IF c.sub.k = "GreedyBytes" THEN Ok(data.val, data.n)
     ELSE IF ~r.ok THEN Fail
     ELSE Ok(r.val, data.n)

\* ParsePrefixed refusing a subcon that leaves bytes of the region unread.
ParsePrefixed_Strict(c, s, p, ctx) ==
  LET l == Parse(c.lengthfield, s, p, ctx)
      n == l.val - (IF c.includelength THEN c.lengthfield.w ELSE 0)
      r == Parse(c.sub, SubSeq(s, l.n + 1, l.n + n), 0, ctx)
  IN IF ~l.ok THEN Fail
     ELSE IF n < 0 \/ l.n + n > Len(s) THEN Fail
     ELSE IF ~r.ok THEN Fail
     ELSE IF r.n < n THEN Fail
     ELSE Ok(r.val, l.n + n)

\* ParsePrefixed without the stream of its own: the subcon reads the outer
\* stream and the position after it is where the subcon stopped.
ParsePrefixed_Unbounded(c, s, p, ctx) ==
  LET l == Parse(c.lengthfield, s, p, ctx)
      r == Parse(c.sub, SubSeq(s, l.n + 1, Len(s)), 0, ctx)
  IN IF ~l.ok THEN Fail
     ELSE IF ~r.ok THEN Fail
     ELSE Ok(r.val, l.n + r.n)

\* Prefixed._parse: the length, then exactly that many bytes read into a
\* stream of their own, on which the subcon is parsed from position 0.
ParsePrefixed(c, s, p, ctx) ==
  LET l == Parse(c.lengthfield, s, p, ctx)
      length == IF c.includelength THEN l.val - c.lengthfield.w ELSE l.val
      data == stream_read(s, l.n, length)
      r == Parse(c.sub, data.val, 0, ctx)
  IN IF ~l.ok THEN Fail
     ELSE IF ~data.ok THEN Fail
     ELSE IF c.sub.k = "GreedyBytes" THEN Ok(data.val, data.n)
     ELSE IF ~r.ok THEN Fail
     ELSE Ok(r.val, data.n)

\* ParseTellPlusSizeOf without the size of the length field.
ParseTellPlusSizeOf_Tell(c, s, p, ctx) == Ok(p, p)

\* TellPlusSizeOf._parse: stream.tell() + self.subcon.sizeof().
ParseTellPlusSizeOf(c, s, p, ctx) == Ok(p + c.sub.w, p)

\* Peek._parse: the subcon's value with the stream rewound; a failure of the
\* subcon is swallowed and None returned.
ParsePeek(c, s, p, ctx) ==
  LET r == Parse(c.sub, s, p, ctx)
  IN IF r.ok THEN Ok(r.val, p) ELSE Ok(None, p)

\* The subcon that parses or builds for c: the case a Switch selects.
Chosen(c, ctx) ==
  IF c.k = "Switch" THEN SwitchCase(c, Eval(c.sel, ctx)) ELSE c

\* If(cond, sub) is IfThenElse(cond, sub, Pass). The value of a field that
\* is there is <<v>>; None is the value of Pass, whichever branch ran it.
ParseIf(c, s, p, ctx) ==
  LET r == Parse(c.sub, s, p, ctx)
  IN IF ~Eval(c.cond, ctx) THEN Ok(None, p)
     ELSE IF ~r.ok THEN Fail
     ELSE IF Chosen(c.sub, ctx).k = "Pass" THEN Ok(None, r.n)
     ELSE Ok(<<r.val>>, r.n)

\* PrefixedArray is a FocusedSeq of a count and an Array of this.count
\* elements; the FocusedSeq opens a context of its own.
ParsePrefixedArray(c, s, p, ctx) ==
  LET cnt == Parse(c.countfield, s, p, [_ |-> ctx])
  IN IF ~cnt.ok THEN Fail
     ELSE ParseArray(c.sub, cnt.val, s, cnt.n, [_ |-> ctx, count |-> cnt.val])

\* Bitwise(Struct(...)): the bytes of the struct's size become a stream of
\* bits on which the struct is parsed.
ParseBitStruct(c, s, p, ctx) ==
  LET data == stream_read(s, p, BitSizeof(c.fields, 1) \div 8)
      r == ParseFields(c.fields, 1, BytesToBits(data.val), 0, [_ |-> ctx])
  IN IF ~data.ok THEN Fail
     ELSE IF ~r.ok THEN Fail
     ELSE Ok(Obj(r.val), data.n)

Parse(c, s, p, ctx) ==
  CASE c.k = "Int" ->
         LET d == stream_read(s, p, c.w)
         IN IF ~d.ok THEN Fail
            ELSE Ok(IF c.signed THEN FromBytesSigned(d.val)
                    ELSE FromBytes(d.val), d.n)
    [] c.k = "Bytes" -> stream_read(s, p, c.n)
    [] c.k = "BitsInteger" ->
         LET d == stream_read(s, p, c.n)
         IN IF ~d.ok THEN Fail ELSE Ok(FromBits(d.val), d.n)
    [] c.k = "Flag" ->
         LET d == stream_read(s, p, 1)
         IN IF ~d.ok THEN Fail ELSE Ok(d.val # <<0>>, d.n)
    [] c.k = "GreedyBytes" -> Ok(SubSeq(s, p + 1, Len(s)), Len(s))
    [] c.k = "Pass" -> Ok(None, p)
    [] c.k = "Padding" ->
         LET d == stream_read(s, p, c.n)
         IN IF ~d.ok THEN Fail ELSE Ok(None, d.n)
    [] c.k = "Const" ->
         LET r == Parse(c.sub, s, p, ctx)
         IN IF ~r.ok THEN Fail ELSE IF r.val # c.v THEN Fail ELSE r
    [] c.k \in {"Default", "Rebuild"} -> Parse(c.sub, s, p, ctx)
    [] c.k = "Enum" ->
         LET r == Parse(c.sub, s, p, ctx)
         IN IF ~r.ok THEN Fail ELSE Ok(c.names[r.val + 1], r.n)
    [] c.k = "UUIDBytes" ->
         LET r == Parse(c.sub, s, p, ctx)
         IN IF ~r.ok THEN Fail ELSE Ok(UUIDDecode(r.val), r.n)
    [] c.k = "ISO6392TLanguageCode" ->
         LET r == Parse(c.sub, s, p, ctx)
         IN IF ~r.ok THEN Fail
            ELSE Ok([i \in 1..Len(r.val) |-> r.val[i] + 96], r.n)
    [] c.k = "If" -> ParseIf(c, s, p, ctx)
    [] c.k = "IfThenElse" ->
         Parse(IF Eval(c.cond, ctx) THEN c.thensub ELSE c.elsesub, s, p, ctx)
    [] c.k = "Switch" -> Parse(SwitchCase(c, Eval(c.sel, ctx)), s, p, ctx)
    [] c.k = "Struct" ->
         LET r == ParseFields(c.fields, 1, s, p, [_ |-> ctx])
         IN IF ~r.ok THEN Fail ELSE Ok(Obj(r.val), r.n)
    [] c.k = "BitStruct" -> ParseBitStruct(c, s, p, ctx)
    [] c.k = "Array" -> ParseArray(c.sub, Eval(c.count, ctx), s, p, ctx)
    [] c.k = "PrefixedArray" -> ParsePrefixedArray(c, s, p, ctx)
    [] c.k = "Prefixed" -> ParsePrefixed(c, s, p, ctx)
    [] c.k = "GreedyRange" -> ParseGreedy(c.sub, s, p, ctx, <<>>)
    [] c.k = "Peek" -> ParsePeek(c, s, p, ctx)
    [] c.k = "LazyBound" -> Parse(Resolve(c.name), s, p, ctx)
    [] c.k = "TellPlusSizeOf" -> ParseTellPlusSizeOf(c, s, p, ctx)
    [] c.k \in {"NotAConstruct", "Unmodelled"} -> Fail

(***************************************************************************)
(* Building: Build(c, o, ctx) is c._build(obj, stream, ctx) on an empty    *)
(* stream; o says whether obj is there (has) and what it is (v), out is    *)
(* what was written and ret what _build returned.                          *)
(***************************************************************************)

BFail == [ok |-> FALSE, out |-> <<>>, ret |-> None]
BOk(out, ret) == [ok |-> TRUE, out |-> out, ret |-> ret]
Some(v) == [has |-> TRUE, v |-> v]
Absent == [has |-> FALSE, v |-> None]

\* lambda ctx: 1 if (hasattr(ctx, "key_IDs") and ctx.key_IDs) else 0
\* (key_IDs is an If field: None, or the list of key ids)
pssh_version(ctx) ==
  IF "key_IDs" \in DOMAIN ctx /\ ctx.key_IDs # None /\ ctx.key_IDs[1] # <<>>
  THEN 1 ELSE 0

\* The functions the source hands to Rebuild.
RebuildFn(fn, ctx) ==
  CASE fn = "pssh_version" -> pssh_version(ctx)

\* flagbuildnone: whether the construct builds from None (a Struct may then
\* be given a record without the field).
FlagBuildNone(c) ==
  CASE c.k \in {"Const", "Default", "Rebuild", "Padding", "Peek", "Pass",
                "TellPlusSizeOf"} -> TRUE
    [] c.k \in {"If", "Prefixed", "UUIDBytes", "Enum"} -> FlagBuildNone(c.sub)
    [] c.k \in {"Struct", "BitStruct"} ->
         \A i \in 1..Len(c.fields) : FlagBuildNone(c.fields[i].codec)
    [] c.k = "Switch" ->
         /\ \A i \in 1..Len(c.cases) : FlagBuildNone(c.cases[i][2])
         /\ FlagBuildNone(c.default)
    [] OTHER -> FALSE

\* Struct._build: the subcons in order; a subcon that builds from None gets
\* obj.get(name), any other obj[name]; what each returns replaces the field
\* in the context the later subcons see.
BuildFields(fields, i, obj, ctx, out) ==
  IF i > Len(fields) THEN BOk(out, ctx)
  ELSE LET sc == fields[i]
           there == sc.name # "" /\ sc.name \in DOMAIN obj
           subobj == IF there THEN Some(obj[sc.name]) ELSE Absent
           ctx1 == IF sc.name = "" THEN ctx ELSE Put(ctx, sc.name, subobj.v)
           r == Build(sc.codec, subobj, ctx1)
       IN IF ~there /\ ~FlagBuildNone(sc.codec) THEN BFail
          ELSE IF ~r.ok THEN BFail
          ELSE BuildFields(fields, i + 1, obj,
                 IF sc.name = "" THEN ctx1 ELSE Put(ctx1, sc.name, r.ret),
                 out \o r.out)

\* Array._build and GreedyRange._build: the elements in order.
BuildArray(sub, items, ctx) ==
  IF items = <<>> THEN BOk(<<>>, <<>>)
  ELSE LET r == Build(sub, Some(Head(items)), ctx)
           rest == BuildArray(sub, Tail(items), ctx)
       IN IF ~r.ok THEN BFail
          ELSE IF ~rest.ok THEN BFail
          ELSE BOk(r.out \o rest.out, <<r.ret>> \o rest.ret)

\* Struct._build: the context starts as the record's own fields.
BuildStruct(fields, o, ctx) ==
  LET obj == IF o.has THEN o.v ELSE TopCtx
  IN BuildFields(fields, 1, obj,
       [x \in DOMAIN obj \cup {"_"} |-> IF x = "_" THEN ctx ELSE obj[x]],
       <<>>)

\* Prefixed._build: the subcon is built into a stream of its own; its size
\* (plus the size of the length field when includelength) is written first.
BuildPrefixed(c, o, ctx) ==
  LET r == Build(c.sub, o, ctx)
      length == Len(r.out) + (IF c.includelength THEN c.lengthfield.w ELSE 0)
  IN IF ~r.ok THEN BFail
     ELSE BOk(ToBytes(length, c.lengthfield.w) \o r.out, r.ret)

\* BuildTellPlusSizeOf writing the length field like the Int32ub it wraps.
BuildTellPlusSizeOf_Written(c, o, ctx) ==
  BOk(IF o.has THEN ToBytes(o.v, c.sub.w) ELSE <<>>, <<>>)

\* TellPlusSizeOf._build: return b"", nothing written.
BuildTellPlusSizeOf(c, o, ctx) == BOk(<<>>, <<>>)

\* Peek._build: nothing written, obj returned.
BuildPeek(c, o, ctx) == BOk(<<>>, o.v)

\* If: the subcon when the condition holds, Pass otherwise.
BuildIf(c, o, ctx) ==
  LET r == Build(c.sub,
                 IF o.has /\ o.v # None THEN Some(o.v[1]) ELSE Absent, ctx)
  IN IF ~Eval(c.cond, ctx) THEN BOk(<<>>, None)
     ELSE IF ~r.ok THEN BFail
     ELSE IF Chosen(c.sub, ctx).k = "Pass" THEN BOk(r.out, None)
     ELSE BOk(r.out, <<r.ret>>)

\* PrefixedArray: count is Rebuild(countfield, len_(this.items)).
BuildPrefixedArray(c, o, ctx) ==
  LET ctx2 == [_ |-> ctx, items |-> o.v]
      cnt == Build(c.countfield, Some(Len(o.v)), ctx2)
      r == BuildArray(c.sub, o.v, Put(ctx2, "count", Len(o.v)))
  IN IF ~o.has THEN BFail
     ELSE IF ~cnt.ok THEN BFail
     ELSE IF ~r.ok THEN BFail
     ELSE BOk(cnt.out \o r.out, r.ret)

Build(c, o, ctx) ==
  CASE c.k = "Int" -> IF ~o.has THEN BFail ELSE BOk(ToBytes(o.v, c.w), o.v)
    [] c.k = "Bytes" ->
         IF ~o.has THEN BFail
         ELSE IF Len(o.v) # c.n THEN BFail ELSE BOk(o.v, o.v)
    [] c.k = "BitsInteger" ->
         IF ~o.has THEN BFail ELSE BOk(ToBits(o.v, c.n), o.v)
    [] c.k = "Flag" ->
         IF ~o.has THEN BFail ELSE BOk(<<IF o.v THEN 1 ELSE 0>>, o.v)
    [] c.k = "GreedyBytes" -> IF ~o.has THEN BFail ELSE BOk(o.v, o.v)
    [] c.k = "Pass" -> BOk(<<>>, None)
    [] c.k = "Padding" -> BOk(Zeros(c.n), None)
    [] c.k = "Const" ->
         LET r == Build(c.sub, Some(c.v), ctx)
         IN IF o.has /\ o.v # c.v THEN BFail ELSE r
    [] c.k = "Default" ->
         Build(c.sub, IF o.has THEN o ELSE Some(c.v), ctx)
    [] c.k = "Rebuild" -> Build(c.sub, Some(RebuildFn(c.fn, ctx)), ctx)
    [] c.k = "Enum" ->
         LET r == Build(c.sub,
                    Some((CHOOSE i \in 1..Len(c.names) : c.names[i] = o.v) - 1),
                    ctx)
         IN IF ~o.has THEN BFail
            ELSE IF ~r.ok THEN BFail ELSE BOk(r.out, o.v)
    [] c.k = "UUIDBytes" ->
         LET r == Build(c.sub, Some(UUIDEncode(o.v)), ctx)
         IN IF ~o.has THEN BFail
            ELSE IF ~r.ok THEN BFail ELSE BOk(r.out, o.v)
    [] c.k = "ISO6392TLanguageCode" ->
         LET r == Build(c.sub, Some([i \in 1..Len(o.v) |-> o.v[i] - 96]), ctx)
         IN IF ~o.has THEN BFail
            ELSE IF ~r.ok THEN BFail ELSE BOk(r.out, o.v)
    [] c.k = "If" -> BuildIf(c, o, ctx)
    [] c.k = "IfThenElse" ->
         Build(IF Eval(c.cond, ctx) THEN c.thensub ELSE c.elsesub, o, ctx)
    [] c.k = "Switch" -> Build(SwitchCase(c, Eval(c.sel, ctx)), o, ctx)
    [] c.k = "Struct" -> BuildStruct(c.fields, o, ctx)
    [] c.k = "BitStruct" ->
         LET r == BuildStruct(c.fields, o, ctx)
         IN IF ~r.ok THEN BFail ELSE BOk(BitsToBytes(r.out), r.ret)
    [] c.k = "Array" ->
         IF ~o.has THEN BFail
         ELSE IF Len(o.v) # Eval(c.count, ctx) THEN BFail
         ELSE BuildArray(c.sub, o.v, ctx)
    [] c.k = "PrefixedArray" -> BuildPrefixedArray(c, o, ctx)
    [] c.k = "Prefixed" -> BuildPrefixed(c, o, ctx)
    [] c.k = "GreedyRange" ->
         IF ~o.has THEN BFail ELSE BuildArray(c.sub, o.v, ctx)
    [] c.k = "Peek" -> BuildPeek(c, o, ctx)
    [] c.k = "LazyBound" -> Build(Resolve(c.name), o, ctx)
    [] c.k = "TellPlusSizeOf" -> BuildTellPlusSizeOf(c, o, ctx)
    [] c.k \in {"NotAConstruct", "Unmodelled"} -> BFail

(***************************************************************************)
(* Input files.  The wire format is written out here byte by byte, without *)
(* the schemas: a box is its 32-bit size, its tag and its payload.         *)
(***************************************************************************)

\* Children of a generated container box; top-level boxes of a generated
\* file; samples of a generated trun; key ids of a generated pssh.
MaxChildren == 2
MaxBoxes == 2
MaxSamples == 2
MaxKeys == 1

RECURSIVE Concat(_)
Concat(ss) == IF ss = <<>> THEN <<>> ELSE Head(ss) \o Concat(Tail(ss))

\* All sequences of at most n elements of S.
RECURSIVE SeqsUpTo(_, _)
SeqsUpTo(S, n) ==
  IF n = 0 THEN {<<>>}
  ELSE LET shorter == SeqsUpTo(S, n - 1)
       IN shorter \cup {Append(q, x) : q \in shorter, x \in S}

\* A box whose size field is exact, and one whose size field is L.
WBox(tag, payload) == ToBytes(8 + Len(payload), 4) \o Tag(tag) \o payload
WBoxL(L, tag, payload) == ToBytes(L, 4) \o Tag(tag) \o payload

\* Bytes left over after a complete body.
Slack == <<1, 2, 3, 4>>
\* A 16-byte id whose bytes are v.
Id16(v) == [i \in 1..16 |-> v]
\* The 16 bytes of a UUID given by its digits.
Ext(u) == UUIDEncode(u)
UUID_Other == [i \in 1..32 |-> 7]

W_sample_flags == <<2, 65, 0, 5>>
W_mfhd == <<0, 0, 0, 0>> \o ToBytes(7, 4)
W_btrt == ToBytes(1, 4) \o ToBytes(2, 4) \o ToBytes(3, 4)
W_tenc == <<0, 0, 0, 0>> \o <<0, 0, 1>> \o <<8>> \o Id16(5)
W_trex == <<0, 0, 0, 0>> \o ToBytes(1, 4) \o ToBytes(1, 4) \o ToBytes(0, 4)
          \o ToBytes(0, 4) \o W_sample_flags
W_mvhd(version) ==
  LET t == IF version = 0 THEN 4 ELSE IF version = 1 THEN 8 ELSE 0
  IN <<version, 0, 0, 0>> \o ToBytes(3, t) \o ToBytes(4, t) \o ToBytes(1000, 4)
     \o ToBytes(5, t) \o ToBytes(65536, 4) \o ToBytes(256, 2) \o Zeros(10)
     \o Concat([i \in 1..9 |-> ToBytes(UNITY_MATRIX[i], 4)]) \o Zeros(24)
     \o ToBytes(2, 4)
W_ftyp == <<105, 115, 111, 109>> \o ToBytes(1, 4)
          \o <<109, 112, 52, 50>> \o <<105, 115, 111, 54>>

\* tfhd: hi carries duration_is_empty (1) and default_base_is_moof (2), lo the
\* five presence bits 1, 2, 8, 16, 32; each present field follows in order.
W_tfhd(hi, lo) ==
  <<0, hi, 0, lo>> \o ToBytes(1, 4)
  \o (IF lo % 2 = 1 THEN ToBytes(17, 8) ELSE <<>>)
  \o (IF (lo \div 2) % 2 = 1 THEN ToBytes(34, 4) ELSE <<>>)
  \o (IF (lo \div 8) % 2 = 1 THEN ToBytes(51, 4) ELSE <<>>)
  \o (IF (lo \div 16) % 2 = 1 THEN ToBytes(68, 4) ELSE <<>>)
  \o (IF (lo \div 32) % 2 = 1 THEN W_sample_flags ELSE <<>>)

\* One sample record of a trun whose per-sample presence bits are mid
\* (duration 1, size 2, flags 4, composition time offsets 8).
W_sample(version, mid, i) ==
  (IF mid % 2 = 1 THEN ToBytes(100 + i, 4) ELSE <<>>)
  \o (IF (mid \div 2) % 2 = 1 THEN ToBytes(200 + i, 4) ELSE <<>>)
  \o (IF (mid \div 4) % 2 = 1 THEN W_sample_flags ELSE <<>>)
  \o (IF (mid \div 8) % 2 = 1
      THEN ToBytes(IF version = 1 THEN 0 - i ELSE 300 + i, 4) ELSE <<>>)

\* trun: lo carries data_offset_present (1) and first_sample_flags_present (4).
W_trun(version, mid, lo, count) ==
  <<version, 0, mid, lo>> \o ToBytes(count, 4)
  \o (IF lo % 2 = 1 THEN ToBytes(0 - 8, 4) ELSE <<>>)
  \o (IF (lo \div 4) % 2 = 1 THEN ToBytes(9, 4) ELSE <<>>)
  \o Concat([i \in 1..count |-> W_sample(version, mid, i)])

\* pssh: version 0 has no key id table, version 1 has one of nkeys entries.
W_pssh(version, nkeys, data) ==
  <<version, 0, 0, 0>> \o Id16(237)
  \o (IF version = 1
      THEN ToBytes(nkeys, 4) \o Concat([i \in 1..nkeys |-> Id16(i)])
      ELSE <<>>)
  \o ToBytes(Len(data), 4) \o data

\* senc: one sample, with or without its subsample table.
W_senc(sub) ==
  <<0, 0, 0, IF sub THEN 2 ELSE 0>> \o ToBytes(1, 4) \o [i \in 1..8 |-> 9]
  \o (IF sub THEN ToBytes(1, 2) \o ToBytes(3, 2) \o ToBytes(4, 4) ELSE <<>>)

\* An audio sample entry with its child boxes, and an stsd of such entries.
W_entry(children) ==
  WBox("mp4a", Zeros(6) \o ToBytes(1, 2) \o ToBytes(0, 2) \o Zeros(6)
               \o ToBytes(2, 2) \o ToBytes(16, 2) \o Zeros(4)
               \o ToBytes(48000, 2) \o Zeros(2) \o children)
W_stsd(entries) ==
  <<0, 0, 0, 0>> \o ToBytes(Len(entries), 4) \o Concat(entries)

ContainerTags ==
  {"moov", "moof", "traf", "mvex", "trak", "mdia", "minf", "dinf", "stbl",
   "sinf", "schi"}

\* Boxes with a fixed layout, each with the exact payload of its schema.
FixedBoxes ==
  {<<"mfhd", W_mfhd>>, <<"trex", W_trex>>, <<"tenc", W_tenc>>,
   <<"btrt", W_btrt>>}

\* Conforming leaf boxes: the size field is exact and reserved bits are zero.
TfhdBoxes ==
  {WBox("tfhd", W_tfhd(hi, lo)) :
     hi \in {0, 1, 2}, lo \in {a + b + c : a \in {0, 1, 2, 3}, b \in {0, 8},
                                       c \in {0, 16, 32, 48}}}
TrunBoxes ==
  {WBox("trun", W_trun(IF mid >= 8 THEN mid % 2 ELSE 0, mid, lo, n)) :
     mid \in 0..15, lo \in {0, 1, 4, 5}, n \in 0..MaxSamples}
PsshBoxes ==
  {WBox("pssh", W_pssh(0, 0, d)) : d \in {<<>>, <<9, 9>>}}
  \cup {WBox("pssh", W_pssh(1, n, <<9>>)) : n \in 0..MaxKeys}
\* The payload of a box with version-selected integers, each as wide as the
\* schema reads it for that version: 4 bytes, 8 bytes, or none.
W_timed(tag, version) ==
  LET t == IF version = 0 THEN 4 ELSE IF version = 1 THEN 8 ELSE 0
      matrix == Concat([i \in 1..9 |-> ToBytes(UNITY_MATRIX[i], 4)])
  IN CASE tag = "mvhd" -> W_mvhd(version)
       [] tag = "tkhd" ->
            <<version, 0, 0, 1>> \o ToBytes(3, t) \o ToBytes(4, t)
            \o ToBytes(1, 4) \o Zeros(4) \o ToBytes(5, t) \o Zeros(8)
            \o Zeros(6) \o Zeros(2) \o matrix
            \o ToBytes(320, 4) \o ToBytes(240, 4)
       [] tag = "mdhd" ->
            <<version, 0, 0, 0>> \o ToBytes(3, t) \o ToBytes(4, t)
            \o ToBytes(1000, 4) \o ToBytes(5, t) \o <<85, 196>> \o Zeros(2)
       [] tag = "mehd" -> <<version, 0, 0, 0>> \o ToBytes(5, t)
       [] tag = "tfdt" -> <<version, 0, 0, 0>> \o ToBytes(6, t)
       [] tag = "sidx" ->
            <<version, 0, 0, 0>> \o ToBytes(1, 4) \o ToBytes(1000, 4)
            \o ToBytes(7, t) \o ToBytes(8, t) \o Zeros(2) \o ToBytes(0, 2)
VersionedBoxes ==
  {WBox(tag, W_timed(tag, version)) :
     tag \in {"mvhd", "tkhd", "mdhd", "mehd", "tfdt", "sidx"},
     version \in {0, 1, 2, 255}}

\* trun boxes of a version that is neither 0 nor 1, with composition offsets.
OtherVersionBoxes ==
  {WBox("trun", W_trun(2, mid, 0, n)) : mid \in {8, 9}, n \in 1..MaxSamples}
UuidBoxes ==
  {WBox("uuid", Ext(UUID_SampleEncryption) \o W_senc(sub)) : sub \in BOOLEAN}
  \cup {WBox("uuid", Ext(UUID_ProtectionSystemHeader) \o W_pssh(1, 1, <<>>)),
        WBox("uuid", Ext(UUID_TrackEncryption) \o W_tenc)}
  \cup {WBox("uuid", Ext(UUID_Other) \o d) : d \in {<<>>, <<1, 2, 3>>}}
LeafBoxes ==
  {WBox(f[1], f[2]) : f \in FixedBoxes}
  \cup {WBox("xxxx", d) : d \in {<<>>, <<222, 173>>}}
  \cup {WBox("free", <<170, 187, 204, 221>>), WBox("mdat", <<>>),
        WBox("ftyp", W_ftyp), WBox("mvhd", W_mvhd(0)), WBox("mvhd", W_mvhd(1)),
        WBox("senc", W_senc(TRUE)),
        WBox("stsd", W_stsd(<<W_entry(<<>>)>>)),
        WBox("stsd", W_stsd(<<W_entry(WBox("btrt", W_btrt))>>))}
  \cup {WBox("saio", <<version, 0, 0, aux>>
                      \o (IF aux = 1 THEN Tag("free") \o ToBytes(0, 4)
                          ELSE <<>>)
                      \o ToBytes(n, 4)
                      \o Concat([i \in 1..n |->
                                   ToBytes(100 + i, 4 * (version + 1))])) :
          version \in {0, 1}, aux \in {0, 1}, n \in 0..MaxSamples}
  \cup TfhdBoxes \cup TrunBoxes \cup PsshBoxes \cup UuidBoxes

\* Boxes that are not conforming: bytes left over after the body (declared
\* size larger than the schema consumes), a body cut short, a constant that
\* does not match, a size field below the 8 bytes of a header or beyond the
\* end of the file.
UnderrunBoxes == {WBox(f[1], f[2] \o Slack) : f \in FixedBoxes}
BrokenBoxes ==
  {WBoxL(12, "mvhd", <<0, 0, 0, 0>>),
   WBox("mfhd", <<1, 0, 0, 0>> \o ToBytes(7, 4)),
   WBoxL(24, "mfhd", W_mfhd),
   WBoxL(1, "free", <<>>),
   WBoxL(0, "free", Slack), WBoxL(4, "free", Slack), WBoxL(7, "free", Slack),
   <<0, 0, 0, 6, 1, 2>>,
   <<0, 0, 0, 3>>,
   WBox("tfhd", <<0, 0, 0, 1>> \o ToBytes(1, 4)),
   WBox("uuid", Ext(UUID_TrackEncryption) \o <<0, 0>>),
   WBoxL(16, "xxxx", <<1>>)}

\* What the generated containers hold: conforming children, children with
\* bytes left over, children that do not decode, and a nested container.
GoodChildren ==
  {WBox("free", <<170, 187>>), WBox("mfhd", W_mfhd), WBox("xxxx", <<>>),
   WBox("traf", WBox("tfhd", W_tfhd(0, 8)))}
BadChildren ==
  {WBox("mfhd", W_mfhd \o Slack), WBoxL(12, "mvhd", <<0, 0, 0, 0>>),
   WBoxL(1, "free", <<>>),
   WBox("traf", WBoxL(12, "mvhd", <<0, 0, 0, 0>>))}

GoodContainers ==
  {WBox("moov", Concat(cs)) : cs \in SeqsUpTo(GoodChildren, MaxChildren)}
  \cup {WBox(t, WBox("mfhd", W_mfhd) \o WBox("free", <<>>)) : t \in ContainerTags}
  \cup {WBox("stsd", W_stsd(<<W_entry(WBox("free", <<1>>))>>))}
  \cup {WBox("moov", WBox("free", <<1>>) \o WBox("mfhd", W_mfhd)
                      \o WBox("free", <<2>>) \o WBox("free", <<3>>)
                      \o WBox("traf", WBox("free", <<4>>)
                                       \o WBox("tfhd", W_tfhd(0, 8))
                                       \o WBox("free", <<5>>))
                      \o WBox("free", <<6>>)),
        WBox("trak", WBox("moov", WBox("free", <<1>>)
                                  \o WBox("moov", WBox("mfhd", W_mfhd)))
                     \o WBox("mfhd", W_mfhd)
                     \o WBox("moov", WBox("free", <<2>>))),
        WBox("trak", WBox("stsd", W_stsd(<<W_entry(WBox("free", <<1>>)
                                                   \o WBox("mfhd", W_mfhd))>>))
                     \o WBox("uuid", Ext(UUID_SampleEncryption)
                                      \o W_senc(FALSE))
                     \o WBox("free", <<2>>))}
BadContainers ==
  {WBox("moov", Concat(cs) \o tail) :
     cs \in SeqsUpTo(GoodChildren \cup BadChildren, MaxChildren),
     tail \in {<<>>, <<0, 0, 0>>}}
  \cup {WBox(t, WBoxL(12, "mvhd", <<0, 0, 0, 0>>)) : t \in ContainerTags}
  \cup {WBox("stsd", W_stsd(<<W_entry(WBox("free", <<1>>)
                                      \o WBoxL(12, "mvhd", <<0, 0, 0, 0>>)
                                      \o WBox("free", <<2>>))>>))}

\* Conforming boxes, and all the boxes a generated file may begin with.
WellFormed == LeafBoxes \cup GoodContainers
TopBoxes ==
  WellFormed \cup UnderrunBoxes \cup OtherVersionBoxes \cup VersionedBoxes
  \cup BrokenBoxes
  \cup BadContainers

\* Boxes that generated files of several boxes are made of.
SeqBoxes ==
  {WBox("free", <<170, 187>>), WBox("xxxx", <<>>), WBox("mfhd", W_mfhd \o Slack),
   WBox("moof", WBox("mfhd", W_mfhd)),
   WBox("moov", WBox("free", <<1>>) \o WBox("mfhd", W_mfhd)
                \o WBox("free", <<2>>)),
   WBoxL(1, "free", <<>>)}

Files ==
  (TopBoxes \cup {Concat(bs) : bs \in SeqsUpTo(SeqBoxes, MaxBoxes)}) \ {<<>>}

(***************************************************************************)
(* util.py, BoxUtil. A box is the record Box.parse returned, or a sample   *)
(* entry, which has no box_body and carries its children itself.           *)
(* getattr(box, "box_body", box) is written out in each operator.          *)
(***************************************************************************)

\* The type_ arguments the model calls BoxUtil with.
SearchTags == {Tag("free"), Tag("moov"), Tag("mp4a")}

\* BoxUtil.first: [ok, val]; ~ok is BoxNotFound raised. The loop returns
\* what the first child returns on which the recursive call does not raise.
first(box_, type_) ==
  LET box_body == IF "box_body" \in DOMAIN box_ THEN box_.box_body ELSE box_
      hits == {i \in 1..Len(box_body.children) :
                 first(box_body.children[i], type_).ok}
  IN IF "children" \in DOMAIN box_body THEN
       IF hits # {}
       THEN first(box_body.children[CHOOSE i \in hits :
                                      \A j \in hits : i <= j], type_)
       ELSE [ok |-> FALSE, val |-> None]
     ELSE IF box_.type = type_ THEN [ok |-> TRUE, val |-> box_]
     ELSE [ok |-> FALSE, val |-> None]

\* BoxUtil.index: the index, counted from 0, of the first direct child of
\* that type, or None (the function falls off its end).
index(box_, type_) ==
  LET box_body == IF "box_body" \in DOMAIN box_ THEN box_.box_body ELSE box_
      hits == {i \in 1..Len(box_body.children) :
                 box_body.children[i].type = type_}
  IN IF "children" \in DOMAIN box_body /\ hits # {}
     THEN Some((CHOOSE i \in hits : \A j \in hits : i <= j) - 1)
     ELSE Absent

\* find searching a box of the type as well, after yielding it.
find_Deep(box_, type_, delete, k) ==
  LET box_body == IF "box_body" \in DOMAIN box_ THEN box_.box_body ELSE box_
      inner == IF "children" \in DOMAIN box_body
               THEN find_loop(box_,
                              [i \in 1..Len(box_body.children) |->
                                 <<i, box_body.children[i]>>],
                              box_body.children, 1, 0, type_, delete, k - 1,
                              <<>>)
               ELSE [ok |-> TRUE, out |-> <<>>, box |-> box_]
  IN IF k = 0 THEN [ok |-> TRUE, out |-> <<>>, box |-> box_]
     ELSE IF box_.type = type_
     THEN [ok |-> inner.ok, out |-> <<<<box_, FALSE>>>> \o inner.out,
           box |-> inner.box]
     ELSE IF "children" \in DOMAIN box_body
     THEN find_loop(box_,
                    [i \in 1..Len(box_body.children) |->
                       <<i, box_body.children[i]>>],
                    box_body.children, 1, 0, type_, delete, k, <<>>)
     ELSE [ok |-> TRUE, out |-> <<>>, box |-> box_]

\* BoxUtil.find, a generator, advanced until it has yielded k pairs or is
\* exhausted: [ok, out, box], out the pairs (fbox, children) yielded, box
\* the box as the deletions done so far have left it, ~ok an IndexError of
\* the del statement.
find(box_, type_, delete, k) ==
  LET box_body == IF "box_body" \in DOMAIN box_ THEN box_.box_body ELSE box_
  IN IF k = 0 THEN [ok |-> TRUE, out |-> <<>>, box |-> box_]
     ELSE IF box_.type = type_
     THEN [ok |-> TRUE, out |-> <<<<box_, FALSE>>>>, box |-> box_]
     ELSE IF "children" \in DOMAIN box_body
     THEN find_loop(box_,
                    [i \in 1..Len(box_body.children) |->
                       <<i, box_body.children[i]>>],
                    box_body.children, 1, 0, type_, delete, k, <<>>)
     ELSE [ok |-> TRUE, out |-> <<>>, box |-> box_]

\* find_loop deleting at the index in the copy, the boxes deleted before
\* not counted.
find_loop_NoCounter(box_, kids, copy, index_, deleted_boxes, type_, delete, k, out) ==
  LET r == find(copy[index_], type_, delete, k)
      direct == r.out # <<>> /\ ~r.out[1][2]
      seen == [j \in 1..Len(kids) |->
                 IF kids[j][1] = index_ THEN <<index_, r.box>> ELSE kids[j]]
      at == index_
      deleted == [j \in 1..(Len(seen) - 1) |->
                    IF j < at THEN seen[j] ELSE seen[j + 1]]
      yielded == out \o [j \in 1..Len(r.out) |-> <<r.out[j][1], TRUE>>]
      With(ks) ==
        LET children == [j \in 1..Len(ks) |-> ks[j][2]]
        IN IF "box_body" \in DOMAIN box_
           THEN [box_ EXCEPT !.box_body.children = children]
           ELSE [box_ EXCEPT !.children = children]
  IN IF index_ > Len(copy) \/ k = 0
     THEN [ok |-> TRUE, out |-> out, box |-> With(kids)]
     ELSE IF ~r.ok THEN [ok |-> FALSE, out |-> out, box |-> With(seen)]
     ELSE IF delete /\ direct THEN
       IF at < 1 \/ at > Len(seen)
       THEN [ok |-> FALSE, out |-> out, box |-> With(seen)]
       ELSE find_loop(box_, deleted, copy, index_ + 1, deleted_boxes + 1,
                      type_, delete, k - 1, yielded)
     ELSE find_loop(box_, seen, copy, index_ + 1, deleted_boxes,
                    type_, delete, k - Len(r.out), yielded)

\* find_loop deleting whatever delete is.
find_loop_Always(box_, kids, copy, index_, deleted_boxes, type_, delete, k, out) ==
  LET r == find(copy[index_], type_, delete, k)
      direct == r.out # <<>> /\ ~r.out[1][2]
      seen == [j \in 1..Len(kids) |->
                 IF kids[j][1] = index_ THEN <<index_, r.box>> ELSE kids[j]]
      at == index_ - deleted_boxes
      deleted == [j \in 1..(Len(seen) - 1) |->
                    IF j < at THEN seen[j] ELSE seen[j + 1]]
      yielded == out \o [j \in 1..Len(r.out) |-> <<r.out[j][1], TRUE>>]
      With(ks) ==
        LET children == [j \in 1..Len(ks) |-> ks[j][2]]
        IN IF "box_body" \in DOMAIN box_
           THEN [box_ EXCEPT !.box_body.children = children]
           ELSE [box_ EXCEPT !.children = children]
  IN IF index_ > Len(copy) \/ k = 0
     THEN [ok |-> TRUE, out |-> out, box |-> With(kids)]
     ELSE IF ~r.ok THEN [ok |-> FALSE, out |-> out, box |-> With(seen)]
     ELSE IF direct THEN
       IF at < 1 \/ at > Len(seen)
       THEN [ok |-> FALSE, out |-> out, box |-> With(seen)]
       ELSE find_loop(box_, deleted, copy, index_ + 1, deleted_boxes + 1,
                      type_, delete, k - 1, yielded)
     ELSE find_loop(box_, seen, copy, index_ + 1, deleted_boxes,
                    type_, delete, k - Len(r.out), yielded)

\* The loop of find over box_body.children.copy(), at the element `index`
\* (counted from 1; the del statement is adjusted for that). kids is
\* box_body.children as it is now, each element with its index in the copy:
\* sbox is the same object in both lists, so what the inner generator
\* deleted from sbox shows in kids. The inner generator yields either sbox
\* itself with children False, once, or pairs with children True.
find_loop(box_, kids, copy, index_, deleted_boxes, type_, delete, k, out) ==
  LET r == find(copy[index_], type_, delete, k)
      direct == r.out # <<>> /\ ~r.out[1][2]
      seen == [j \in 1..Len(kids) |->
                 IF kids[j][1] = index_ THEN <<index_, r.box>> ELSE kids[j]]
      at == index_ - deleted_boxes
      deleted == [j \in 1..(Len(seen) - 1) |->
                    IF j < at THEN seen[j] ELSE seen[j + 1]]
      yielded == out \o [j \in 1..Len(r.out) |-> <<r.out[j][1], TRUE>>]
      With(ks) ==
        LET children == [j \in 1..Len(ks) |-> ks[j][2]]
        IN IF "box_body" \in DOMAIN box_
           THEN [box_ EXCEPT !.box_body.children = children]
           ELSE [box_ EXCEPT !.children = children]
  IN IF index_ > Len(copy) \/ k = 0
     THEN [ok |-> TRUE, out |-> out, box |-> With(kids)]
     ELSE IF ~r.ok THEN [ok |-> FALSE, out |-> out, box |-> With(seen)]
     ELSE IF delete /\ direct THEN
       IF at < 1 \/ at > Len(seen)
       THEN [ok |-> FALSE, out |-> out, box |-> With(seen)]
       ELSE find_loop(box_, deleted, copy, index_ + 1, deleted_boxes + 1,
                      type_, delete, k - 1, yielded)
     ELSE find_loop(box_, seen, copy, index_ + 1, deleted_boxes,
                    type_, delete, k - Len(r.out), yielded)

\* BoxUtil.find_extended, a generator that changes nothing: the boxes it
\* yields when run to its end.
find_extended(box_, extended_type_) ==
  LET box_body == IF "box_body" \in DOMAIN box_ THEN box_.box_body ELSE box_
  IN IF "extended_type" \in DOMAIN box_body
        /\ box_body.extended_type = extended_type_
     THEN <<box_>>
     ELSE IF "children" \in DOMAIN box_body
     THEN Concat([i \in 1..Len(box_body.children) |->
                    find_extended(box_body.children[i], extended_type_)])
     ELSE <<>>

(***************************************************************************)
(* The program: cli.py reads the file box by box with Box.parse_stream;    *)
(* a caller of the library parses a whole file with MP4.parse, builds a    *)
(* parsed box again with Box.build, and searches and prunes the parsed     *)
(* boxes with BoxUtil.                                                     *)
(***************************************************************************)

VARIABLES
  stream,   \* the bytes of the input file
  pos,      \* fd.tell()
  start,    \* where the box parsed last began
  pc,       \* "init", "parsed", "built", "mp4", "util", or "error" (an
            \* exception)
  box,      \* the Container Box.parse_stream returned last
  built,    \* what Box.build made of a record: [ok, out, obj]
  tree,     \* the list MP4.parse returned
  found     \* the BoxUtil call made last and what it returned

vars == <<stream, pos, start, pc, box, built, tree, found>>

Init ==
  /\ stream \in Files
  /\ pos = 0
  /\ start = 0
  /\ pc = "init"
  /\ box = None
  /\ built = None
  /\ tree = None
  /\ found = None

\* cli.py, one turn of the loop: while fd.tell() < eof: Box.parse_stream(fd).
\* An exception ends the program.
ParseStream ==
  /\ pc \in {"init", "parsed", "built"}
  /\ pos < Len(stream)
  /\ LET r == Parse(Box, stream, pos, TopCtx)
     IN /\ pc' = IF r.ok THEN "parsed" ELSE "error"
        /\ box' = IF r.ok THEN r.val ELSE None
        /\ pos' = IF r.ok THEN r.n ELSE pos
  /\ start' = pos
  /\ built' = None
  /\ UNCHANGED <<stream, tree, found>>

\* The records Box.build is given: the parsed box as it is, the box without
\* its length field, and the box with another number in its length field.
Records(b) ==
  {b, [x \in {"type", "box_body"} |-> b[x]], [b EXCEPT !.length = 0]}

\* Box.build(record).
BuildBox ==
  /\ pc = "parsed"
  /\ \E obj \in Records(box) :
       LET r == Build(Box, Some(obj), TopCtx)
       IN built' = [ok |-> r.ok, out |-> r.out, obj |-> obj]
  /\ pc' = "built"
  /\ UNCHANGED <<stream, pos, start, box, tree, found>>

\* MP4.parse(data), on the whole file.
ParseMP4 ==
  /\ pc = "init"
  /\ LET r == Parse(MP4, stream, 0, TopCtx)
     IN /\ tree' = r.val
        /\ pos' = r.n
  /\ pc' = "mp4"
  /\ UNCHANGED <<stream, start, box, built, found>>

\* BoxUtil.first(tree[i], type_), on a box of the parsed file.
First ==
  /\ pc \in {"mp4", "util"}
  /\ \E i \in 1..Len(tree), type_ \in SearchTags :
       LET r == first(tree[i], type_)
       IN found' = [op |-> "first", i |-> i, type_ |-> type_,
                    ok |-> r.ok, ret |-> r.val]
  /\ pc' = "util"
  /\ UNCHANGED <<stream, pos, start, box, built, tree>>

\* BoxUtil.index(tree[i], type_).
Index ==
  /\ pc \in {"mp4", "util"}
  /\ \E i \in 1..Len(tree), type_ \in SearchTags :
       found' = [op |-> "index", i |-> i, type_ |-> type_,
                 ret |-> index(tree[i], type_)]
  /\ pc' = "util"
  /\ UNCHANGED <<stream, pos, start, box, built, tree>>

\* BoxUtil.find(tree[i], type_, delete=delete), consumed by the caller up to
\* its k-th pair, or to its end (end = TRUE). The deletions act on the
\* children lists of tree[i] itself.
Find ==
  /\ pc \in {"mp4", "util"}
  /\ \E i \in 1..Len(tree), type_ \in SearchTags, delete \in BOOLEAN :
       LET all == find(tree[i], type_, delete, Len(stream))
       IN \E k \in 0..Len(all.out) :
            LET r == find(tree[i], type_, delete, k)
            IN /\ found' = [op |-> "find", i |-> i, type_ |-> type_,
                            delete |-> delete, ok |-> r.ok, ret |-> r.out,
                            end |-> (k = Len(all.out))]
               /\ tree' = [tree EXCEPT ![i] = r.box]
  /\ pc' = "util"
  /\ UNCHANGED <<stream, pos, start, box, built>>

\* BoxUtil.find_extended(tree[i], extended_type_), consumed up to its k-th
\* box.
FindExtended ==
  /\ pc \in {"mp4", "util"}
  /\ \E i \in 1..Len(tree), extended_type_ \in {UUID_SampleEncryption} :
       LET all == find_extended(tree[i], extended_type_)
       IN \E k \in 0..Len(all) :
            found' = [op |-> "find_extended", i |-> i,
                      type_ |-> extended_type_, ret |-> SubSeq(all, 1, k)]
  /\ pc' = "util"
  /\ UNCHANGED <<stream, pos, start, box, built, tree>>

Next ==
  \/ ParseStream \/ BuildBox \/ ParseMP4
  \/ First \/ Index \/ Find \/ FindExtended

Spec == Init /\ [][Next]_vars

(***************************************************************************)
(* Properties.                                                             *)
(***************************************************************************)

\* The box the last Box.parse_stream was called on, as it is on the wire:
\* its size field, its tag, and (after a successful parse) all its bytes.
HasHeader == pc \in {"parsed", "built", "error"} /\ start + 8 <= Len(stream)
WireL == FromBytes(SubSeq(stream, start + 1, start + 4))
WireType == SubSeq(stream, start + 5, start + 8)
Wire == SubSeq(stream, start + 1, pos)
Parsed == pc \in {"parsed", "built"}
\* The schema of box_body (the Switch of Box) and the context it is used in.
BodySchema == Box.sub.fields[2].codec
BodyCtx(type) == [_ |-> TopCtx, type |-> type]
InTable(tag) ==
  \E i \in 1..Len(BodySchema.cases) : BodySchema.cases[i][1] = tag

\* C1: round trip: building the record that Box decoded from a well-formed
\* box yields the bytes of that box again.
C1_RoundTrip ==
  (pc = "built" /\ built.obj = box /\ Wire \in WellFormed)
    => (built.ok /\ built.out = Wire)

\* C2 as stated: the recorded length of a decoded box is the size field read
\* from the wire (8 plus the bytes after size and type).
C2_LengthIsPrefix == Parsed => box.length = WireL

\* C2 as amended: the recorded length of a decoded box is 4 plus the number
\* of bytes the body schema consumed (the tag included); it is at least 8 and
\* at most the size field, and it is the size field for a conforming box.
C2_LengthIsConsumed ==
  Parsed =>
    /\ box.length = 4 + Parse(BodySchema, SubSeq(stream, start + 5, pos), 0,
                              BodyCtx(box.type)).n
    /\ 8 <= box.length
    /\ box.length <= WireL
    /\ (Wire \in WellFormed => box.length = WireL)

\* C2's case: a box was decoded whose body left bytes of its size unconsumed.
C2_Witness == pc = "parsed" /\ box.length < WireL

\* C3: a successful decode moves the cursor by exactly the size field, the
\* decoded box is the one its own bytes alone decode to (nothing is read
\* beyond them), and a box decoded after another starts where that one's
\* size ends.
C3_PrefixIsAuthoritative ==
  [][pc' = "parsed" =>
       /\ pos' = start' + WireL'
       /\ box' = Parse(Box, Wire', 0, TopCtx).val
       /\ (Parsed => start' = start + WireL)]_vars

\* C3's case: a second box was decoded, after bytes, and its own body left
\* bytes of its size unconsumed.
C3_Witness == pc = "parsed" /\ start > 0 /\ box.length < WireL

\* C4: the size field Box.build writes is 4 plus the bytes of the built
\* body, whatever the record's length field holds and also without one; the
\* output is that size field followed by the body and nothing else.
C4_PrefixRebuilt ==
  pc = "built" =>
    LET body == Build(BodySchema, Some(built.obj.box_body),
                      [_ |-> TopCtx, type |-> built.obj.type,
                       box_body |-> built.obj.box_body])
    IN /\ built.ok
       /\ body.ok
       /\ FromBytes(SubSeq(built.out, 1, 4)) = 4 + Len(body.out)
       /\ built.out = ToBytes(4 + Len(body.out), 4) \o body.out

\* C4's case: a record whose length field is absent was built.
C4_Witness ==
  pc = "built" /\ built.ok /\ "length" \notin DOMAIN built.obj
  /\ Len(built.out) > 8

\* C5: a box of size L >= 8 that is all in the file and whose tag is not in
\* the dispatch table always decodes, to the raw variant: the tag, and the
\* L - 8 bytes after it as data.
C5_UnknownTagFallback ==
  (HasHeader /\ ~InTable(WireType) /\ WireL >= 8
   /\ start + WireL <= Len(stream))
    => /\ pc # "error"
       /\ box.type = WireType
       /\ box.box_body =
            [type |-> WireType,
             data |-> SubSeq(stream, start + 9, start + WireL)]
       /\ Len(box.box_body.data) = box.length - 8

\* C5's case: a box with an unknown tag and some data was decoded.
C5_Witness ==
  pc = "parsed" /\ ~InTable(box.type) /\ Len(box.box_body.data) > 0

\* The flag bytes of the full box decoded last, and bit i of a byte.
FlagsMid == stream[start + 11]
FlagsLo == stream[start + 12]
Bit(byte, i) == (byte \div (2 ^ i)) % 2 = 1
Present(f) == f # None
IsTfhd == Parsed /\ box.type = Tag("tfhd")
IsTrun == Parsed /\ box.type = Tag("trun")
\* The bytes a field that is there stands for, and none for one that is not.
Wire32(f) == IF Present(f) THEN ToBytes(f[1], 4) ELSE <<>>
Wire64(f) == IF Present(f) THEN ToBytes(f[1], 8) ELSE <<>>
WireFlags(f) ==
  IF Present(f) THEN Build(TrackSampleFlags, Some(f[1]), TopCtx).out ELSE <<>>

\* tfhd: each optional field is there iff its flag bit is set on the wire,
\* and the fields that are there follow track_ID in the listed order.
TfhdCoherent ==
  IsTfhd =>
    LET b == box.box_body
    IN /\ Present(b.base_data_offset) <=> Bit(FlagsLo, 0)
       /\ Present(b.sample_description_index) <=> Bit(FlagsLo, 1)
       /\ Present(b.default_sample_duration) <=> Bit(FlagsLo, 3)
       /\ Present(b.default_sample_size) <=> Bit(FlagsLo, 4)
       /\ Present(b.default_sample_flags) <=> Bit(FlagsLo, 5)
       /\ SubSeq(stream, start + 17, start + box.length)
            = Wire64(b.base_data_offset) \o Wire32(b.sample_description_index)
              \o Wire32(b.default_sample_duration)
              \o Wire32(b.default_sample_size)
              \o WireFlags(b.default_sample_flags)

\* trun: the header fields and the first three fields of each sample record
\* are there iff their flag bit is set; offsets tells when the composition
\* offsets of a sample are.
TrunCoherent(offsets) ==
  IsTrun =>
    LET b == box.box_body
    IN /\ Present(b.data_offset) <=> Bit(FlagsLo, 0)
       /\ Present(b.first_sample_flags) <=> Bit(FlagsLo, 2)
       /\ Len(b.sample_info) = b.sample_count
       /\ \A i \in 1..Len(b.sample_info) :
            LET e == b.sample_info[i]
            IN /\ Present(e.sample_duration) <=> Bit(FlagsMid, 0)
               /\ Present(e.sample_size) <=> Bit(FlagsMid, 1)
               /\ Present(e.sample_flags) <=> Bit(FlagsMid, 2)
               /\ Present(e.sample_composition_time_offsets) <=> offsets

\* Building the decoded tfhd or trun again emits the flag bytes it was
\* decoded from.
FlagsReEncoded ==
  (pc = "built" /\ built.obj = box
   /\ box.type \in {Tag("tfhd"), Tag("trun")})
    => /\ built.ok
       /\ SubSeq(built.out, 10, 12) = SubSeq(stream, start + 10, start + 12)

\* C6 as stated: in a decoded tfhd and a decoded trun every optional field,
\* the composition offsets of each sample included, is there iff its flag
\* bit is set, tfhd's fields in the listed order; building again emits the
\* flag bits of the fields that are there.
C6_PresentIffFlag ==
  TfhdCoherent /\ TrunCoherent(Bit(FlagsMid, 3)) /\ FlagsReEncoded

\* C6 as amended: as stated, except that the composition offsets of a sample
\* are there iff their flag bit is set and the version is 0 or 1; a trun of
\* another version decodes and builds with that flag bit set and no offsets.
C6_FlagCoherence ==
  /\ TfhdCoherent
  /\ TrunCoherent(Bit(FlagsMid, 3) /\ box.box_body.version \in {0, 1})
  /\ FlagsReEncoded

\* C6's case: a tfhd with default_sample_duration and without
\* base_data_offset was decoded and built again.
C6_Witness ==
  /\ pc = "built" /\ built.obj = box /\ box.type = Tag("tfhd")
  /\ Present(box.box_body.default_sample_duration)
  /\ ~Present(box.box_body.base_data_offset)

\* The boxes that lie one after another in s from p up to end, each decoded
\* from its own bytes alone, up to the first that does not fit or does not
\* decode; and the position after the last of them.
RECURSIVE Boxes(_, _, _)
Boxes(s, p, end) ==
  LET L == FromBytes(SubSeq(s, p + 1, p + 4))
      r == Parse(Box, SubSeq(s, p + 1, p + L), 0, TopCtx)
  IN IF p + 8 > end THEN <<>>
     ELSE IF L < 8 \/ p + L > end THEN <<>>
     ELSE IF ~r.ok THEN <<>>
     ELSE <<r.val>> \o Boxes(s, p + L, end)
RECURSIVE BoxesEnd(_, _, _)
BoxesEnd(s, p, end) ==
  LET L == FromBytes(SubSeq(s, p + 1, p + 4))
      r == Parse(Box, SubSeq(s, p + 1, p + L), 0, TopCtx)
  IN IF p + 8 > end THEN p
     ELSE IF L < 8 \/ p + L > end THEN p
     ELSE IF ~r.ok THEN p
     ELSE BoxesEnd(s, p + L, end)
RECURSIVE SumLengths(_)
SumLengths(bs) ==
  IF bs = <<>> THEN 0 ELSE Head(bs).length + SumLengths(Tail(bs))
RECURSIVE BuildEach(_)
BuildEach(bs) ==
  IF bs = <<>> THEN <<>>
  ELSE Build(Box, Some(Head(bs)), TopCtx).out \o BuildEach(Tail(bs))

IsContainer == Parsed /\ box.type \in {Tag(t) : t \in ContainerTags}
\* A moov of size 20 holding a 12-byte mvhd box.
MoovWithStub == WBoxL(20, "moov", WBoxL(12, "mvhd", <<0, 0, 0, 0>>))

\* C7 as stated: the lengths of a decoded container's children add up to its
\* size field less 8, and the moov of size 20 with a 12-byte mvhd box decodes
\* to one child, of type mvhd and length 12.
C7_ChildLengthsSumToBody ==
  IsContainer =>
    /\ SumLengths(box.box_body.children) = WireL - 8
    /\ Wire = MoovWithStub =>
         /\ Len(box.box_body.children) = 1
         /\ box.box_body.children[1].type = Tag("mvhd")
         /\ box.box_body.children[1].length = 12

\* C7 as amended: the children of a decoded container are the boxes of its
\* body in wire order up to the first that does not decode; the container's
\* length is 8 plus the bytes of those boxes; the lengths of the children
\* add up to at most that, and to the size field less 8 when all the body
\* conforms; building writes the children in the same order; the moov of
\* size 20 with a 12-byte mvhd box (too short for an mvhd) has no children.
C7_ContainerRecursion ==
  /\ IsContainer =>
       LET cs == box.box_body.children
       IN /\ cs = Boxes(stream, start + 8, start + WireL)
          /\ box.length = BoxesEnd(stream, start + 8, start + WireL) - start
          /\ SumLengths(cs) <= box.length - 8
          /\ box.length <= WireL
          /\ Wire \in GoodContainers => SumLengths(cs) = WireL - 8
          /\ Wire = MoovWithStub => cs = <<>>
  /\ (pc = "built" /\ IsContainer) =>
       /\ built.ok
       /\ SubSeq(built.out, 9, Len(built.out))
            = BuildEach(built.obj.box_body.children)

\* C7's case: a container with two children of different types was decoded
\* and built again.
C7_Witness ==
  /\ pc = "built" /\ IsContainer
  /\ Len(box.box_body.children) = 2
  /\ box.box_body.children[1].type # box.box_body.children[2].type

\* The uuid box Box.parse_stream was called on last: its extended type and
\* the bytes after it.
IsUuid ==
  /\ HasHeader /\ WireType = Tag("uuid")
  /\ WireL >= 24 /\ start + WireL <= Len(stream)
ExtType == UUIDDecode(SubSeq(stream, start + 9, start + 24))
Rest == SubSeq(stream, start + 25, start + WireL)
KnownExtTypes ==
  {UUID_SampleEncryption, UUID_ProtectionSystemHeader, UUID_TrackEncryption}
\* What schema decodes from the bytes after the extended type of a uuid box.
Typed(schema) == Parse(schema, Rest, 0, BodyCtx(Tag("uuid"))).val

\* C8: a uuid box whose extended type is one of the three known ones decodes
\* to the sample-encryption, protection-system-header or track-encryption
\* body respectively, read without a type tag of its own; with any other
\* extended type it always decodes, to all the bytes after the extended type.
C8_UUIDDispatch ==
  /\ (IsUuid /\ ExtType \notin KnownExtTypes) =>
       /\ pc # "error"
       /\ box.box_body.extended_type = ExtType
       /\ box.box_body.data = Rest
       /\ Len(box.box_body.data) = WireL - 24
  /\ (IsUuid /\ SubSeq(stream, start + 1, start + WireL) \in UuidBoxes) =>
       pc # "error"
  /\ (IsUuid /\ Parsed /\ ExtType \in KnownExtTypes) =>
       LET d == box.box_body.data
       IN /\ box.box_body.extended_type = ExtType
          /\ d.type = None
          /\ ExtType = UUID_SampleEncryption =>
               /\ d = Typed(SampleEncryptionBox)
               /\ Len(d.sample_encryption_info)
                    = FromBytes(SubSeq(Rest, 5, 8))
          /\ ExtType = UUID_ProtectionSystemHeader =>
               /\ d = Typed(ProtectionSystemHeaderBox)
               /\ d.system_ID = UUIDDecode(SubSeq(Rest, 5, 20))
          /\ ExtType = UUID_TrackEncryption =>
               /\ d = Typed(TrackEncryptionBox)
               /\ d.iv_size = Rest[8]
               /\ d.key_ID = UUIDDecode(SubSeq(Rest, 9, 24))

\* C8's case: a uuid box with a known extended type was decoded.
C8_Witness == pc = "parsed" /\ IsUuid /\ ExtType \in KnownExtTypes

\* C8's other case: a uuid box with an unknown extended type and bytes after
\* it was decoded.
C8_WitnessOpaque ==
  pc = "parsed" /\ IsUuid /\ ExtType \notin KnownExtTypes /\ Len(Rest) > 0

\* Where the children of the sample entry of a decoded stsd with one entry
\* begin and end: 16 bytes of stsd before the entry, 36 bytes of an audio
\* entry before its children.
EntryL == FromBytes(SubSeq(stream, start + 17, start + 20))
IsStsd ==
  /\ Parsed /\ box.type = Tag("stsd")
  /\ Len(box.box_body.children) = 1
  /\ box.box_body.children[1].type = Tag("mp4a")

\* C9 as stated: a decode that returns has dropped nothing: MP4 returns only
\* when it decoded the whole input, and a decoded container or sample entry
\* holds all the boxes of its body.
C9_ErrorsPropagate ==
  /\ pc = "mp4" => pos = Len(stream)
  /\ IsContainer =>
       BoxesEnd(stream, start + 8, start + WireL) = start + WireL
  /\ IsStsd =>
       BoxesEnd(stream, start + 52, start + 16 + EntryL) = start + 16 + EntryL

\* C9 as amended: an error in the framing or the own fields of the box being
\* decoded surfaces to the caller of Box; an error in an element of a greedy
\* sequence of boxes (the children of a container, the children of a sample
\* entry, the top-level MP4 sequence) is caught there: the sequence ends
\* before the failing box and the decode returns the boxes before it, without
\* the failing box and those after it. A container whose own framing is
\* complete never fails.
C9_ErrorsEndSequences ==
  /\ (pc \in {"parsed", "built", "error"}
      /\ SubSeq(stream, start + 1, Len(stream)) \in BrokenBoxes) =>
       (pc = "error" /\ box = None /\ pos = start)
  /\ (HasHeader /\ WireType \in {Tag(t) : t \in ContainerTags}
      /\ WireL >= 8 /\ start + WireL <= Len(stream)) =>
       /\ pc # "error"
       /\ box.box_body.children = Boxes(stream, start + 8, start + WireL)
  /\ IsStsd =>
       box.box_body.children[1].children
         = Boxes(stream, start + 52, start + 16 + EntryL)
  /\ pc = "mp4" =>
       /\ tree = Boxes(stream, 0, Len(stream))
       /\ pos = BoxesEnd(stream, 0, Len(stream))

\* C9's case: MP4 returned a tree though a box of the input did not decode.
C9_Witness == pc = "mp4" /\ pos < Len(stream)

\* C9's other case: a container was decoded whose body holds a box that
\* does not decode.
C9_WitnessNested ==
  /\ pc = "parsed" /\ IsContainer
  /\ BoxesEnd(stream, start + 8, start + WireL) + 8 <= start + WireL

\* A box with a fixed layout and bytes left over after its body, and the
\* same box without them.
IsUnderrun ==
  /\ HasHeader
  /\ start + WireL <= Len(stream)
  /\ SubSeq(stream, start + 1, start + WireL) \in UnderrunBoxes
Exact ==
  ToBytes(WireL - Len(Slack), 4)
  \o SubSeq(stream, start + 5, start + WireL - Len(Slack))

\* C10 as stated: a box with a fixed layout whose declared size leaves bytes
\* after its body does not decode.
C10_UnderrunFails == IsUnderrun => pc = "error"

\* C10 as amended: a box with a fixed layout whose declared size leaves
\* bytes after its body decodes without error to what the box without those
\* bytes decodes to; the cursor moves past the leftover bytes, which are
\* dropped: building the decoded box yields the box without them.
C10_UnderrunDropped ==
  IsUnderrun =>
    /\ pc # "error"
    /\ box = Parse(Box, Exact, 0, TopCtx).val
    /\ box.length = WireL - Len(Slack)
    /\ pos = start + WireL
    /\ (pc = "built" /\ built.obj = box) => (built.ok /\ built.out = Exact)

\* C10's case: a box with leftover bytes was decoded and built again.
C10_Witness == pc = "built" /\ built.obj = box /\ IsUnderrun

\* The boxes with version-selected integers: for each tag the bytes of the
\* box apart from those integers, and each such field with its place after
\* the 12 bytes of size, type, version and flags: a bytes plus b widths.
TimedTags == {"mvhd", "tkhd", "mdhd", "mehd", "tfdt", "sidx"}
TimedName == CHOOSE t \in TimedTags : Tag(t) = WireType
TimedFixed(tag) ==
  CASE tag = "mvhd" -> 96 [] tag = "tkhd" -> 80 [] tag = "mdhd" -> 20
    [] tag = "mehd" -> 12 [] tag = "tfdt" -> 12 [] tag = "sidx" -> 24
TimedFields(tag) ==
  CASE tag \in {"mvhd", "mdhd"} ->
         {<<"creation_time", 0, 0>>, <<"modification_time", 0, 1>>,
          <<"duration", 4, 2>>}
    [] tag = "tkhd" ->
         {<<"creation_time", 0, 0>>, <<"modification_time", 0, 1>>,
          <<"duration", 8, 2>>}
    [] tag = "mehd" -> {<<"fragment_duration", 0, 0>>}
    [] tag = "tfdt" -> {<<"baseMediaDecodeTime", 0, 0>>}
    [] tag = "sidx" ->
         {<<"earliest_presentation_time", 8, 0>>, <<"first_offset", 8, 1>>}
IsTimed == HasHeader /\ WireType \in {Tag(t) : t \in TimedTags}
WireVersion == stream[start + 9]
\* The version-selected fields of the decoded box are the w bytes at their
\* places, and the box is as long as its other bytes and those come to.
TimedAsWide(w) ==
  /\ \A f \in TimedFields(TimedName) :
       box.box_body[f[1]]
         = FromBytes(SubSeq(stream, start + 13 + f[2] + f[3] * w,
                            start + 12 + f[2] + f[3] * w + w))
  /\ box.length
       = TimedFixed(TimedName) + Cardinality(TimedFields(TimedName)) * w
\* Building the decoded box yields its bytes again.
TimedRebuilt ==
  (pc = "built" /\ built.obj = box) => (built.ok /\ built.out = Wire)

C11_Witness64 ==
  pc = "parsed" /\ IsTimed /\ WireType = Tag("sidx") /\ WireVersion = 1

\* A box begins at p, before end, whose 32-bit prefix is below 8.
SmallAt(p, end) ==
  p + 4 <= end /\ FromBytes(SubSeq(stream, p + 1, p + 4)) < 8
\* The box Box was asked to decode has such a prefix.
SmallTop ==
  pc \in {"parsed", "built", "error"} /\ SmallAt(start, Len(stream))
\* The body of the container Box was asked to decode holds, after boxes that
\* decode, a box with such a prefix.
SmallChild ==
  /\ HasHeader /\ WireType \in {Tag(t) : t \in ContainerTags}
  /\ WireL >= 8 /\ start + WireL <= Len(stream)
  /\ SmallAt(BoxesEnd(stream, start + 8, start + WireL), start + WireL)

\* C12 as stated: a box whose 32-bit prefix is below 8 is rejected with an
\* error, as the box being decoded and as a child inside a container or in
\* the top-level sequence: the decode does not return without it.
C12_SmallPrefixRejected ==
  /\ SmallTop => pc = "error"
  /\ SmallChild => pc = "error"
  /\ pc = "mp4" => ~SmallAt(BoxesEnd(stream, 0, Len(stream)), Len(stream))

\* C12 as amended: a box whose 32-bit prefix is below 8 is rejected with an
\* error when it is the box Box is asked to decode. As a child inside a
\* container, or as an element of the top-level MP4 sequence, it is never
\* accepted as a box, but its error is caught: the sequence ends before it,
\* the container decodes with the children before it, its length field
\* counting the bytes up to it only, and the cursor moves past
\* the container, the child and the bytes after it dropped.
C12_SmallPrefixEndsSequence ==
  /\ SmallTop => (pc = "error" /\ box = None /\ pos = start)
  /\ SmallChild =>
       /\ pc # "error"
       /\ box.box_body.children = Boxes(stream, start + 8, start + WireL)
       /\ pos = start + WireL
       /\ box.length = BoxesEnd(stream, start + 8, start + WireL) - start
       /\ box.length < WireL
  /\ (pc = "mp4" /\ SmallAt(BoxesEnd(stream, 0, Len(stream)), Len(stream))) =>
       /\ tree = Boxes(stream, 0, Len(stream))
       /\ pos = BoxesEnd(stream, 0, Len(stream))
       /\ pos < Len(stream)

\* C12's case: a container was decoded whose body holds a box with prefix 1
\* followed by a box that decodes on its own.
C12_Witness ==
  /\ pc = "parsed" /\ SmallChild
  /\ LET p == BoxesEnd(stream, start + 8, start + WireL)
     IN /\ FromBytes(SubSeq(stream, p + 1, p + 4)) = 1
        /\ Parse(Box, SubSeq(stream, p + 9, start + WireL), 0, TopCtx).ok

\* C12's other case: Box was asked to decode a box with prefix 7.
C12_WitnessTop == pc = "error" /\ SmallTop /\ WireL = 7

\* The boxes of the subtree of b in depth-first order, b first, each with
\* the types of the boxes it lies inside (anc those of the boxes around b).
RECURSIVE DFS(_, _)
DFS(b, anc) ==
  LET body == IF "box_body" \in DOMAIN b THEN b.box_body ELSE b
      kids == IF "children" \in DOMAIN body THEN body.children ELSE <<>>
  IN <<[box |-> b, anc |-> anc]>>
     \o Concat([i \in 1..Len(kids) |-> DFS(kids[i], anc \cup {b.type})])
\* Those of them whose type is t.
Matches(b, t) ==
  LET IsT(x) == x.box.type = t IN SelectSeq(DFS(b, {}), IsT)
Called(op) == pc = "util" /\ found.op = op

\* C13: BoxUtil.first(node, tag) returns the first box in depth-first order
\* whose type is tag, node itself and boxes that carry children included,
\* and raises BoxNotFound exactly when the tree holds no box of that type.
C13_FirstInDFS ==
  Called("first") =>
    LET m == Matches(tree[found.i], found.type_)
    IN /\ found.ok <=> m # <<>>
       /\ found.ok => found.ret = m[1].box

\* b with every box of type t taken out of the children list it is in, the
\* other boxes in their order; a box of type t is not looked into.
RECURSIVE Prune(_, _)
Prune(b, t) ==
  LET body == IF "box_body" \in DOMAIN b THEN b.box_body ELSE b
      Keep(x) == x.type # t
      kept == SelectSeq(body.children, Keep)
      children == [i \in 1..Len(kept) |-> Prune(kept[i], t)]
  IN IF "children" \notin DOMAIN body THEN b
     ELSE IF "box_body" \in DOMAIN b
     THEN [b EXCEPT !.box_body.children = children]
     ELSE [b EXCEPT !.children = children]
\* The step is a call of find(tree[i], t, delete=d) consumed to its end.
FindToEnd(d) ==
  /\ pc' = "util" /\ found'.op = "find"
  /\ found'.delete = d /\ found'.end

\* C14: when find(node, tag, delete=True) has been consumed to its end,
\* every yielded box has type tag and, unless it is node itself, is gone
\* from the children of its direct parent; no box of another type is
\* removed and the remaining children keep their order, for any number and
\* positions of matches.
C14_DeleteRemovesMatches ==
  [][FindToEnd(TRUE) =>
       LET node == tree[found'.i]
           type_ == found'.type_
       IN /\ found'.ok
          /\ \A j \in 1..Len(found'.ret) : found'.ret[j][1].type = type_
          /\ tree'[found'.i]
               = IF node.type = type_ THEN node ELSE Prune(node, type_)]_vars

\* C14's case: a deleting find was consumed to its end on a tree with six
\* boxes of the type, at two depths, two of them adjacent.
C14_Witness ==
  /\ Called("find") /\ found.delete /\ found.end
  /\ Len(found.ret) = 6
  /\ tree[found.i] # Parse(MP4, stream, 0, TopCtx).val[found.i]

\* The boxes a sequence of DFS entries, or of yielded pairs, is of.
BoxesOf(es) == [j \in 1..Len(es) |-> es[j].box]
Yielded(ps) == [j \in 1..Len(ps) |-> ps[j][1]]
\* The boxes of type t in the subtree of b that lie inside no box of type t.
Outermost(b, t) ==
  LET IsOuterT(x) == x.box.type = t /\ t \notin x.anc
  IN SelectSeq(DFS(b, {}), IsOuterT)
\* The step is a call of find consumed to its end.
FindAll == pc' = "util" /\ found'.op = "find" /\ found'.end

\* C15 as stated: find(node, tag) yields every box of the subtree whose type
\* is tag, each once, in depth-first order, boxes inside containers, stsd and
\* sample entries and boxes inside another box of that type included.
C15_FindEnumeratesAll ==
  [][FindAll =>
       Yielded(found'.ret)
         = BoxesOf(Matches(tree[found'.i], found'.type_))]_vars

\* C15 as amended: find(node, tag) yields every box of the subtree whose
\* type is tag and that lies inside no other box of that type, each once,
\* in depth-first order, boxes inside containers, stsd and sample entries
\* included; a box of that type is yielded and not searched, so a box of
\* that type inside it is not yielded.
C15_FindEnumeratesOutermost ==
  [][FindAll =>
       Yielded(found'.ret)
         = BoxesOf(Outermost(tree[found'.i], found'.type_))]_vars

\* C15's case: find was consumed to its end on a tree with three boxes of
\* the type, one of them inside another, and yielded two.
C15_Witness ==
  /\ Called("find") /\ ~found.delete /\ found.end
  /\ Len(found.ret) = 2
  /\ Len(Matches(tree[found.i], found.type_)) = 3

\* C15's other case: find yielded a box that lies in a sample entry of an
\* stsd.
C15_WitnessEntry ==
  /\ Called("find") /\ ~found.delete /\ found.end
  /\ \E x \in {Matches(tree[found.i], found.type_)[j] :
                 j \in 1..Len(Matches(tree[found.i], found.type_))} :
       /\ Tag("mp4a") \in x.anc /\ Tag("stsd") \in x.anc
       /\ x.box \in {found.ret[j][1] : j \in 1..Len(found.ret)}

\* The place of a named flag in the 24 flag bits of tfhd, bit 0 the least
\* significant: the bit that, set alone, decodes to that flag set.
TfhdFlags == TrackFragmentHeaderBox.fields[3].codec
FlagPos(f) ==
  CHOOSE p \in 0..23 : Parse(TfhdFlags, ToBytes(2 ^ p, 3), 0, TopCtx).val[f]
\* The named flags of a list stand from the most significant bit down.
MsbToLsb(names) ==
  \A i \in 1..(Len(names) - 1) : FlagPos(names[i]) > FlagPos(names[i + 1])
\* The flags of the decoded tfhd are the bits of its 24 wire bits at these
\* places.
Wire24 == FromBytes(SubSeq(stream, start + 10, start + 12))
FlagsAtPos ==
  \A f \in DOMAIN box.box_body.flags :
    box.box_body.flags[f] <=> Bit(Wire24, FlagPos(f))

\* C16 as stated: from the most significant to the least significant of the
\* 24 flag bits of tfhd the named flags stand in the order
\* base_data_offset_present, sample_description_index_present,
\* default_sample_duration_present, default_sample_size_present,
\* default_sample_flags_present, duration_is_empty, default_base_is_moof.
C16_OrderAsStated ==
  IsTfhd =>
    MsbToLsb(<<"base_data_offset_present", "sample_description_index_present",
               "default_sample_duration_present", "default_sample_size_present",
               "default_sample_flags_present", "duration_is_empty",
               "default_base_is_moof">>)

\* C16 as amended: from the most significant to the least significant of the
\* 24 flag bits of tfhd the named flags stand in the order
\* default_base_is_moof, duration_is_empty, default_sample_flags_present,
\* default_sample_size_present, default_sample_duration_present,
\* sample_description_index_present, base_data_offset_present, and a decoded
\* tfhd has each flag as its bit on the wire is.
C16_OrderReversed ==
  IsTfhd =>
    /\ MsbToLsb(<<"default_base_is_moof", "duration_is_empty",
                  "default_sample_flags_present", "default_sample_size_present",
                  "default_sample_duration_present",
                  "sample_description_index_present",
                  "base_data_offset_present">>)
    /\ FlagsAtPos

\* C16's case: a tfhd was decoded with the first and the last flag of the
\* order set, the one in the high byte and the other in the low byte.
C16_Witness ==
  /\ IsTfhd /\ pc = "parsed"
  /\ stream[start + 10] = 2 /\ FlagsLo % 2 = 1
  /\ box.box_body.flags.default_base_is_moof
  /\ box.box_body.flags.base_data_offset_present

\* A saio box on the wire: its version, whether the two aux_info fields
\* are there, where its count stands and the count.
IsSaio == HasHeader /\ WireType = Tag("saio")
SaioAux == IF stream[start + 12] % 2 = 1 THEN 8 ELSE 0
SaioCount ==
  FromBytes(SubSeq(stream, start + 13 + SaioAux, start + 16 + SaioAux))

\* C17: decoded and encoded through Box, each element of the offsets array
\* of a saio box is a 32-bit integer when the version of the saio box
\* itself is 0 and a 64-bit integer when it is 1.
C17_SaioOffsetsWidth ==
  /\ (IsSaio /\ SubSeq(stream, start + 1, start + WireL) \in LeafBoxes)
       => pc # "error"
  /\ (IsSaio /\ Parsed /\ WireVersion \in {0, 1}) =>
       LET w == IF WireVersion = 0 THEN 4 ELSE 8
           at(i) == start + 16 + SaioAux + (i - 1) * w
           offsets == box.box_body.offsets
       IN /\ box.box_body.version = WireVersion
          /\ Len(offsets) = SaioCount
          /\ \A i \in 1..Len(offsets) :
               offsets[i] = FromBytes(SubSeq(stream, at(i) + 1, at(i) + w))
          /\ box.length = 16 + SaioAux + SaioCount * w
          /\ (pc = "built" /\ built.obj = box) =>
               (built.ok /\ built.out = Wire)

\* C17's case: a saio of version 1 with two offsets was decoded and built
\* again.
C17_Witness ==
  /\ pc = "built" /\ built.obj = box /\ IsSaio
  /\ WireVersion = 1 /\ SaioCount = 2

\* C17's other case: a saio of version 0 with an offset was decoded.
C17_Witness32 ==
  pc = "parsed" /\ IsSaio /\ WireVersion = 0 /\ SaioCount >= 1

\* C18: a call of first, index or find_extended, or of find with
\* delete=False, consumed to its end or in part, after any calls made
\* before, leaves every children sequence of every parsed tree as it was;
\* a call of find with delete=True leaves every tree other than the one it
\* was passed as it was.
C18_ReadOnlyNavigation ==
  [][pc' = "util" =>
       /\ found'.op \in {"first", "index", "find_extended"} => tree' = tree
       /\ (found'.op = "find" /\ ~found'.delete) => tree' = tree
       /\ (found'.op = "find" /\ found'.delete) =>
            /\ Len(tree') = Len(tree)
            /\ \A j \in 1..Len(tree) : j # found'.i => tree'[j] = tree[j]
       /\ box' = box]_vars

\* C18's case: after a deleting find had changed a tree, a find with
\* delete=False on it was consumed in part.
C18_Witness ==
  /\ Called("find") /\ ~found.delete /\ ~found.end
  /\ Len(found.ret) >= 1
  /\ tree # Parse(MP4, stream, 0, TopCtx).val

\* C18's other case: a deleting find changed one of two parsed trees that
\* both hold boxes of the type.
C18_WitnessOther ==
  /\ Called("find") /\ found.delete /\ Len(tree) = 2
  /\ tree[found.i] # Parse(MP4, stream, 0, TopCtx).val[found.i]
  /\ \A j \in 1..2 : Matches(Parse(MP4, stream, 0, TopCtx).val[j],
                             found.type_) # <<>>

====
